---- MODULE Spec2Model ----
(***************************************************************************)
(* A model of clickhelper (src/clickhelper/__init__.py): the task poller   *)
(* ClickHelpClient.wait_for_task, the retention cleanup                    *)
(* S3BackupUploader.cleanup_old_backups, the configuration compiler        *)
(* ConfigLoader, the workflow drivers run_publications, run_tribble_upload *)
(* and run_backup, the command dispatch of src/clickhelper.py with         *)
(* run_all_workflows, the ingestion upload (upload_to_tribble, upload_pdf, *)
(* wait_for_processing) and ClickHelpClient.delete_storage_file.           *)
(*                                                                         *)
(* Each component has its own specification (SpecPoll, SpecPollFair,       *)
(* SpecCleanup, SpecPublish, SpecIngest, SpecActions, SpecBackup,          *)
(* SpecMain, SpecOps, SpecProcessing, SpecUpload, SpecStorage) over the    *)
(* same variables; the variables of the components a specification does    *)
(* not exercise keep their initial values.                                 *)
(***************************************************************************)
EXTENDS Integers, Sequences, FiniteSets, TLC

VARIABLES
    \* ---- ClickHelpClient.wait_for_task: one invocation frame
    wpc,            \* position: "idle", "test" (while condition), "fetch", "sleep", "done"
    task_type,      \* argument task_type
    max_wait,       \* argument max_wait
    poll_interval,  \* argument poll_interval
    elapsed,        \* time.time() - start_time
    lastFetch,      \* what get_task_status did last: "none", "status", or the error it raised
    status,         \* the status dictionary fetched last (NoStatus before the first fetch)
    outcome,        \* "none", "return", or the class of the exception raised
    errmsg,         \* the pieces of the raised exception's message
    retval,         \* the returned status
    fetches,        \* number of get_task_status calls made by this invocation
    sleeps,         \* number of time.sleep calls made by this invocation
    \* ---- S3BackupUploader.cleanup_old_backups: one invocation frame
    cpc,            \* position: "idle", "deleting", "done"
    bucket,         \* the objects under the folder, in the order list_objects_v2 returns them
    retention_count, \* argument retention_count
    backups_to_delete, \* backups_sorted[retention_count:]
    di,             \* number of loop iterations over backups_to_delete done so far
    deleted_count,  \* local deleted_count
    attempted,      \* the delete_object requests issued, with what each did
    cresult,        \* "none", "return", or the class of the exception raised
    creturn,        \* the returned count
    \* ---- the workflow drivers run_publications and run_tribble_upload
    config,         \* the loaded YAML mapping: its top-level entries in file order
    remote,         \* what GET /api/v1/projects lists: entries [id, parentId]
    ppc,            \* position: "start", "reconcile", "process", "done", "aborted"
    existing_projects,     \* ids of the listed entries without a parent
    existing_publications, \* ids of the listed entries with a parent
    ri,             \* reconciliation: index of the project key at hand
    rj,             \* reconciliation: index of the publication at hand
    projects,       \* the list build_projects_from_config returned
    proj_i,         \* processing: index of the project at hand
    pub_i,          \* processing: index of the publication at hand
    act_i,          \* processing: index of the action at hand
    current_pub,    \* the counter current_pub
    pubCalls,       \* the calls made for the publication handled last, in order
    last_export_path, \* _last_export_path of the publication at hand
    files,          \* the local files written by this run
    \* ---- ConfigLoader._build_actions_from_publication: one invocation frame
    kpc,            \* position: "input", "compiled"
    pub_config,     \* argument pub_config
    actions,        \* the returned action list
    \* ---- run_backup
    bpc,            \* position: "start", "project", "done", "disabled", "raised"
    bstep,          \* the step of the loop body that comes next
    bk_i,           \* index of the project at hand
    bkCalls,        \* the calls made for the project handled last, in order
    backup_files,   \* the local backup files that exist: project ids
    now,            \* the clock: datetime.now(), in seconds
    task_output_file, \* task_info['outputFileName'] of the project at hand
    storage_calls,  \* the storage path each portal request for the project handled
                    \* last has named, with the time of the request
    \* ---- src/clickhelper.py main and run_all_workflows
    mpc,            \* position: "dispatch", "publish", "tribble-upload", "backup", "exit", "raised"
    command,        \* args.command
    env,            \* the environment variables that are set and not empty
    requests,       \* the services a request has been issued to so far
    failures,       \* the workflows in which the handling of an item has raised so far
    error,          \* the exception that ended the process, "none" when none did
    \* ---- TribbleUploader.wait_for_processing: one invocation frame
    jpc,            \* position: "idle", "test" (while condition), "check", "sleep", "done"
    job_max_wait,   \* argument max_wait
    job_poll_interval, \* argument poll_interval
    job_elapsed,    \* time.time() - start_time
    job_status,     \* the status of the response check_status returned last
    job_outcome,    \* "none", "return", or the class of the exception raised
    checks,         \* number of check_status calls made by this invocation
    job_sleeps,     \* number of time.sleep calls made by this invocation
    \* ---- one upload_tribble action: ClickHelpPublication.upload_to_tribble,
    \* ---- TribbleUploader.upload_pdf and the report of run_tribble_upload
    upc,            \* position: "idle", "upload_to_tribble", "upload_pdf", "open", "post",
                    \* "wait", "report", "done"
    pdf_path,       \* file_path = pdf_path or self._last_export_path (<<>> when neither)
    wait_flag,      \* argument wait_for_processing
    local_files,    \* the local files that exist
    opened,         \* number of open(file_path, 'rb') calls made
    posted,         \* number of requests.post calls made
    upload_result,  \* the result upload_pdf returned (NoResult before)
    up_outcome,     \* "none", "return", or the class of the exception raised
    report,         \* what the workflow logged for the action: "none", "SUCCESS", "FAILED"
    \* ---- ClickHelpClient.delete_storage_file: one invocation frame
    dpc,            \* position: "input", "called"
    file_path,      \* argument file_path
    relative_path   \* the path put after /api/v1/storage/ in the endpoint

pollVars == <<wpc, task_type, max_wait, poll_interval, elapsed, lastFetch, status,
              outcome, errmsg, retval, fetches, sleeps>>

cleanupVars == <<cpc, bucket, retention_count, backups_to_delete, di, deleted_count,
                 attempted, cresult, creturn>>

flowVars == <<config, remote, ppc, existing_projects, existing_publications, ri, rj,
              projects, proj_i, pub_i, act_i, current_pub, pubCalls, last_export_path, files>>

compileVars == <<kpc, pub_config, actions>>

backupVars == <<bpc, bstep, bk_i, bkCalls, backup_files, now, task_output_file, storage_calls>>

mainVars == <<mpc, command, env, requests, failures, error>>

procVars == <<jpc, job_max_wait, job_poll_interval, job_elapsed, job_status, job_outcome,
              checks, job_sleeps>>

uploadVars == <<upc, pdf_path, wait_flag, local_files, opened, posted, upload_result,
                up_outcome, report>>

storageVars == <<dpc, file_path, relative_path>>

unitVars == <<procVars, uploadVars, storageVars>>

vars == <<wpc, task_type, max_wait, poll_interval, elapsed, lastFetch, status,
          outcome, errmsg, retval, fetches, sleeps,
          cpc, bucket, retention_count, backups_to_delete, di, deleted_count,
          attempted, cresult, creturn,
          config, remote, ppc, existing_projects, existing_publications, ri, rj,
          projects, proj_i, pub_i, act_i, current_pub, pubCalls, last_export_path, files,
          kpc, pub_config, actions,
          bpc, bstep, bk_i, bkCalls, backup_files, now, task_output_file, storage_calls,
          mpc, command, env, requests, failures, error,
          jpc, job_max_wait, job_poll_interval, job_elapsed, job_status, job_outcome,
          checks, job_sleeps,
          upc, pdf_path, wait_flag, local_files, opened, posted, upload_result,
          up_outcome, report,
          dpc, file_path, relative_path>>

----------------------------------------------------------------------------
(* Bounds                                                                  *)

MaxWaitArg == 2      \* max_wait is drawn from -1..MaxWaitArg
MaxPollArg == 2      \* poll_interval is drawn from 1..MaxPollArg
MaxLatency == 1      \* a status fetch takes 0..MaxLatency seconds
MaxOvershoot == 1    \* a sleep lasts poll_interval + 0..MaxOvershoot seconds
MaxListing == 4      \* a folder holds 0..MaxListing backups
MaxStamp == 3        \* last-modified times are drawn from 1..MaxStamp
MaxRetention == 3    \* retention_count is drawn from 0..MaxRetention
MaxPubsTotal == 2    \* a configuration has at most MaxPubsTotal publication entries

----------------------------------------------------------------------------
(* Task status responses (GET /api/v1/tasks/{taskKey})                     *)

Absent == -1         \* marks a key the response dictionary does not have

DefaultOverallProgress == 0
DefaultMaxProgress == 100

NoStatus == [none |-> TRUE]

\* isSucceeded: "null" (in progress, or key absent), "true", "false"
StatusResponses ==
    [isSucceeded : {"null", "true", "false"},
     overallProgress : {Absent, 0, 50, 100, 150},
     maxOverallProgress : {Absent, 0, 100},
     statusText : {"", "Export failed<br/>disk full"}]

\* the outcomes of get_task_status other than a parsed status
FetchErrors == {"HTTP404", "HTTP500", "ConnectionError"}

\* status.get('overallProgress', 0)
OverallProgressOf(s) ==
    IF s.overallProgress = Absent THEN DefaultOverallProgress ELSE s.overallProgress

\* status.get('maxOverallProgress', 100)
MaxProgressOf(s) ==
    IF s.maxOverallProgress = Absent THEN DefaultMaxProgress ELSE s.maxOverallProgress

\* mutants of IsComplete: a strict comparison; no look at the progress
IsCompleteStrict(s) ==
    s.isSucceeded # "null" /\ OverallProgressOf(s) > MaxProgressOf(s)

IsCompleteIgnoresProgress(s) == s.isSucceeded # "null"

\* mutant of IsComplete: a failed task is polled on
IsCompleteOnSuccessOnly(s) ==
    s.isSucceeded = "true" /\ OverallProgressOf(s) >= MaxProgressOf(s)

\* is_succeeded is not None and overall_progress >= max_progress
IsComplete(s) ==
    s.isSucceeded # "null" /\ OverallProgressOf(s) >= MaxProgressOf(s)

\* str.capitalize() on the task types the callers pass
Capitalize(t) ==
    CASE t = "task" -> "Task"
      [] t = "export" -> "Export"
      [] t = "publish" -> "Publish"
      [] t = "backup" -> "Backup"

TaskTypes == {"task", "export", "publish", "backup"}

\* mutant of ErrorMsgOf: the status text is dropped
ErrorMsgConst(s) == "Task failed"

\* error_msg = status_text or "Task failed"
ErrorMsgOf(s) == IF s.statusText = "" THEN "Task failed" ELSE s.statusText

\* f"{task_type.capitalize()} task failed: {error_msg}"
TaskFailedMessage(t, s) == <<Capitalize(t), " task failed: ", ErrorMsgOf(s)>>

\* f"Task {task_key} not found. Check if task completed earlier or task key is invalid."
TaskNotFoundMessage == <<"Task ", "task_key", " not found. Check if task completed earlier or task key is invalid.">>

\* f"{task_type.capitalize()} task did not complete within {max_wait} seconds"
TimeoutMessage(t, mw) ==
    <<Capitalize(t), " task did not complete within ", ToString(mw), " seconds">>

----------------------------------------------------------------------------
(* ClickHelpClient.wait_for_task                                           *)

\* mutant of WithinWait: one more iteration at the bound
WithinWaitInclusive == elapsed <= max_wait

\* time.time() - start_time < max_wait
WithinWait == elapsed < max_wait

\* mutant of IsNotFound: the 404 is not recognised
IsNotFoundNever(e) == FALSE

\* e.response.status_code == 404
IsNotFound(e) == e = "HTTP404"

\* entry: start_time = time.time()
EnterWait(tt, mw, pi) ==
    /\ wpc' = "test"
    /\ task_type' = tt
    /\ max_wait' = mw
    /\ poll_interval' = pi
    /\ elapsed' = 0
    /\ lastFetch' = "none"
    /\ status' = NoStatus
    /\ outcome' = "none"
    /\ errmsg' = <<>>
    /\ retval' = NoStatus
    /\ fetches' = 0
    /\ sleeps' = 0

\* while time.time() - start_time < max_wait: ... else raise TimeoutError
LoopTest ==
    /\ wpc = "test"
    /\ IF WithinWait
       THEN /\ wpc' = "fetch"
            /\ UNCHANGED <<outcome, errmsg>>
       ELSE /\ wpc' = "done"
            /\ outcome' = "TimeoutError"
            /\ errmsg' = TimeoutMessage(task_type, max_wait)
    /\ UNCHANGED <<task_type, max_wait, poll_interval, elapsed, lastFetch, status,
                   retval, fetches, sleeps>>

\* the loop body when get_task_status returns the status s after lat seconds
FetchStatus(s, lat) ==
    /\ wpc = "fetch"
    /\ fetches' = fetches + 1
    /\ elapsed' = elapsed + lat
    /\ lastFetch' = "status"
    /\ status' = s
    /\ IF IsComplete(s)
       THEN IF s.isSucceeded = "true"
            THEN /\ wpc' = "done"
                 /\ outcome' = "return"
                 /\ retval' = s
                 /\ errmsg' = errmsg
            ELSE /\ wpc' = "done"
                 /\ outcome' = "Exception"
                 /\ errmsg' = TaskFailedMessage(task_type, s)
                 /\ retval' = retval
       ELSE /\ wpc' = "sleep"
            /\ UNCHANGED <<outcome, errmsg, retval>>
    /\ UNCHANGED <<task_type, max_wait, poll_interval, sleeps>>

\* the loop body when get_task_status raises: a 404 HTTPError becomes the
\* not-found Exception, every other exception propagates unchanged
FetchError(e, lat) ==
    /\ wpc = "fetch"
    /\ fetches' = fetches + 1
    /\ elapsed' = elapsed + lat
    /\ lastFetch' = e
    /\ wpc' = "done"
    /\ IF IsNotFound(e)
       THEN /\ outcome' = "Exception"
            /\ errmsg' = TaskNotFoundMessage
       ELSE /\ outcome' = (IF e = "HTTP500" THEN "HTTPError" ELSE "ConnectionError")
            /\ errmsg' = <<e>>
    /\ UNCHANGED <<task_type, max_wait, poll_interval, status, retval, sleeps>>

\* mutant of Sleep: the sleep is cut short
SleepCutShort(over) ==
    /\ wpc = "sleep"
    /\ sleeps' = sleeps + 1
    /\ elapsed' = elapsed + poll_interval - 1 + over
    /\ wpc' = "test"
    /\ UNCHANGED <<task_type, max_wait, poll_interval, lastFetch, status, outcome,
                   errmsg, retval, fetches>>

\* time.sleep(poll_interval), which lasts over seconds longer than asked
Sleep(over) ==
    /\ wpc = "sleep"
    /\ sleeps' = sleeps + 1
    /\ elapsed' = elapsed + poll_interval + over
    /\ wpc' = "test"
    /\ UNCHANGED <<task_type, max_wait, poll_interval, lastFetch, status, outcome,
                   errmsg, retval, fetches>>

----------------------------------------------------------------------------
(* S3BackupUploader.cleanup_old_backups                                    *)

\* a listing: key i is the i-th object list_objects_v2 returned
Listings(n) ==
    {[i \in 1..n |-> [key |-> i, last_modified |-> t[i]]] : t \in [1..n -> 1..MaxStamp]}

\* mutant of InsertNewestFirst: ascending order (reverse=True forgotten)
InsertOldestFirst(b, sorted) ==
    LET before == {i \in 1..Len(sorted) : sorted[i].last_modified <= b.last_modified}
        k == Cardinality(before)
    IN  SubSeq(sorted, 1, k) \o <<b>> \o SubSeq(sorted, k + 1, Len(sorted))

\* one insertion of the stable descending sort: b goes behind every entry
\* that is at least as recent (sorted is in descending order)
InsertNewestFirst(b, sorted) ==
    LET before == {i \in 1..Len(sorted) : sorted[i].last_modified >= b.last_modified}
        k == Cardinality(before)
    IN  SubSeq(sorted, 1, k) \o <<b>> \o SubSeq(sorted, k + 1, Len(sorted))

RECURSIVE SortedNewestFirst(_)
\* sorted(backups, key=lambda x: x['last_modified'], reverse=True): stable,
\* entries with equal times keep the order of the listing
SortedNewestFirst(backups) ==
    IF backups = <<>> THEN <<>>
    ELSE InsertNewestFirst(backups[Len(backups)],
                           SortedNewestFirst(SubSeq(backups, 1, Len(backups) - 1)))

\* backups_sorted[:retention_count]
BackupsToKeep(backups, n) ==
    SubSeq(SortedNewestFirst(backups), 1, IF n < Len(backups) THEN n ELSE Len(backups))

\* backups_sorted[retention_count:]
BackupsToDelete(backups, n) ==
    SubSeq(SortedNewestFirst(backups), n + 1, Len(backups))

\* what delete_object does: it succeeds, raises ClientError (an error response
\* of the service), or raises another exception (no connection, no credentials)
DeleteResults == {"ok", "ClientError", "OtherError"}

\* the inner handler is "except ClientError: continue"; any other exception
\* reaches the outer "except Exception: raise"
AbortsCleanup(r) == r \notin {"ok", "ClientError"}

\* mutant of CountAfter: the attempts are counted
CountAttempts(r, n) == n + 1

\* deleted_count += 1 follows delete_object inside the try
CountAfter(r, n) == IF r = "ok" THEN n + 1 ELSE n

\* list_backups, the retention test and the split of the sorted listing
CleanupStart(listOk) ==
    /\ cpc = "idle"
    /\ di' = 0
    /\ deleted_count' = 0
    /\ attempted' = <<>>
    /\ IF ~listOk
       THEN /\ cpc' = "done"
            /\ cresult' = "ClientError"
            /\ UNCHANGED <<backups_to_delete, creturn>>
       ELSE IF Len(bucket) <= retention_count
       THEN /\ cpc' = "done"
            /\ cresult' = "return"
            /\ creturn' = 0
            /\ UNCHANGED backups_to_delete
       ELSE /\ cpc' = "deleting"
            /\ backups_to_delete' = BackupsToDelete(bucket, retention_count)
            /\ UNCHANGED <<cresult, creturn>>
    /\ UNCHANGED <<bucket, retention_count>>

\* one iteration of "for backup in backups_to_delete", and the return that
\* follows the last one
DeleteNext(r) ==
    /\ cpc = "deleting"
    /\ di < Len(backups_to_delete)
    /\ di' = di + 1
    /\ attempted' = Append(attempted, [key |-> backups_to_delete[di + 1].key, result |-> r])
    /\ deleted_count' = CountAfter(r, deleted_count)
    /\ IF AbortsCleanup(r)
       THEN /\ cpc' = "done"
            /\ cresult' = r
            /\ UNCHANGED creturn
       ELSE IF di + 1 = Len(backups_to_delete)
       THEN /\ cpc' = "done"
            /\ cresult' = "return"
            /\ creturn' = deleted_count'
       ELSE /\ UNCHANGED <<cpc, cresult, creturn>>
    /\ UNCHANGED <<bucket, retention_count, backups_to_delete>>

InitCleanupVars ==
    /\ cpc = "idle"
    /\ bucket = <<>>
    /\ retention_count = 0
    /\ backups_to_delete = <<>>
    /\ di = 0
    /\ deleted_count = 0
    /\ attempted = <<>>
    /\ cresult = "none"
    /\ creturn = 0

----------------------------------------------------------------------------
(* ConfigLoader: the configuration and the compiled project list           *)

\* The configuration is the sequence of its top-level entries
\* [key, isDict, items]; items holds the entries [key, isDict, value] of a
\* mapping in file order.  A publication configuration is a function whose
\* domain is the set of property names given for it.  Titles and file names
\* are sequences of characters.

Chars_Guide == <<"G", "u", "i", "d", "e">>
Chars_Notes == <<"N", "o", "t", "e", "s">>
Chars_Release ==
    <<"R", "e", "l", "e", "a", "s", "e", " ", "N", "o", "t", "e", "s", ":", " ",
      "v", "2", ".", "0", "!">>

\* the characters of the publication ids used in the configurations
CharsOf(id) ==
    CASE id = "guide" -> <<"g", "u", "i", "d", "e">>
      [] id = "notes" -> <<"n", "o", "t", "e", "s">>
      [] id = "ref" -> <<"r", "e", "f">>
      [] id = "faq" -> <<"f", "a", "q">>
      [] id = "api" -> <<"a", "p", "i">>

\* the project keys and the publication ids of the configurations, in file order
ProjectKeyOrder == <<"docs", "release-notes">>
PubIdOrder == <<"guide", "notes", "ref", "faq", "api">>

PubConfigs ==
    { [title |-> Chars_Guide, export |-> TRUE],
      [title |-> Chars_Release, visibility |-> "Public"],
      [update |-> "FullReplace", output_tags |-> <<"web">>, export |-> TRUE,
       export_preset_name |-> "Print"],
      [title |-> Chars_Notes] }

\* an item of a project section that is not a mapping
ScalarItem == [scalar |-> TRUE]

ItemValues == PubConfigs \cup {ScalarItem}

\* the project sections with n entries
ProjectDatas(n) ==
    {[j \in 1..n |-> [key |-> PubIdOrder[j], isDict |-> v[j] # ScalarItem, value |-> v[j]]] :
        v \in [1..n -> ItemValues]}

RECURSIVE ProjectSections(_, _)
\* the sequences of project sections from key number k on with at most
\* budget entries in all
ProjectSections(k, budget) ==
    IF k > Len(ProjectKeyOrder) THEN {<<>>}
    ELSE
    {<<>>} \cup
    UNION { { <<[key |-> ProjectKeyOrder[k], isDict |-> TRUE, items |-> d]>> \o rest :
                 d \in ProjectDatas(n), rest \in ProjectSections(k + 1, budget - n) } :
            n \in 1..budget }

\* the sections that are not projects, as the configuration file may have them
ClickhelpSection ==
    [key |-> "clickhelp", isDict |-> TRUE,
     items |-> <<[key |-> "portal_url", isDict |-> FALSE, value |-> ScalarItem]>>]

SettingsSections ==
    {[key |-> "settings", isDict |-> TRUE,
      items |-> <<[key |-> "wait_for_processing", isDict |-> FALSE, value |-> b]>>] :
        b \in BOOLEAN}

\* config_sections = {'clickhelp', 'tribble', 's3_backup', 'settings'}
ConfigSections == {"clickhelp", "tribble", "s3_backup", "settings"}

\* pub_config.get(k, default)
Get(c, k, default) == IF k \in DOMAIN c THEN c[k] ELSE default

\* [key for key in config.keys() if key not in config_sections]
ProjectKeys(cfg) == SelectSeq(cfg, LAMBDA e : e.key \notin ConfigSections)

\* settings.get(name, default), settings = config.get('settings', {})
SettingsGet(cfg, name, default) ==
    LET secs == SelectSeq(cfg, LAMBDA e : e.key = "settings")
        its == IF secs = <<>> THEN <<>>
               ELSE SelectSeq(secs[1].items, LAMBDA it : it.key = name)
    IN  IF its = <<>> THEN default ELSE its[1].value

Letters ==
    {"a", "b", "c", "d", "e", "f", "g", "h", "i", "j", "k", "l", "m", "n", "o", "p", "q",
     "r", "s", "t", "u", "v", "w", "x", "y", "z",
     "A", "B", "C", "D", "E", "F", "G", "H", "I", "J", "K", "L", "M", "N", "O", "P", "Q",
     "R", "S", "T", "U", "V", "W", "X", "Y", "Z"}

Digits == {"0", "1", "2", "3", "4", "5", "6", "7", "8", "9"}

\* mutant of KeepsChar: the period is removed as well
KeepsCharNoPeriod(c) == c \in Letters \cup Digits \cup {" ", "_", "-"}

\* c.isalnum() or c in (' ', '_', '-', '.')
KeepsChar(c) == c \in Letters \cup Digits \cup {" ", "_", "-", "."}

RECURSIVE Strip(_)
\* str.strip(): of the characters KeepsChar lets through only the space is
\* white space
Strip(f) ==
    IF f = <<>> THEN f
    ELSE IF Head(f) = " " THEN Strip(Tail(f))
    ELSE IF f[Len(f)] = " " THEN Strip(SubSeq(f, 1, Len(f) - 1))
    ELSE f

Pdf == <<".", "p", "d", "f">>

\* filename.endswith('.pdf')
EndsWithPdf(f) == Len(f) >= 4 /\ SubSeq(f, Len(f) - 3, Len(f)) = Pdf

\* the file name derived from the title; <<>> stands for both '' and None
FilenameOf(title) ==
    LET cleaned == Strip(SelectSeq(title, KeepsChar))
    IN  IF cleaned # <<>> /\ ~EndsWithPdf(cleaned) THEN cleaned \o Pdf ELSE cleaned

\* mutant of BuildActions: visibility defaults to "Restricted", the default
\* of ClickHelpPublication.publish
BuildActionsRestricted(c) ==
    LET publish ==
            IF "update" \in DOMAIN c \/ "visibility" \in DOMAIN c \/ "output_tags" \in DOMAIN c
            THEN <<[type |-> "publish",
                    update_mode |-> Get(c, "update", "Partial"),
                    visibility |-> Get(c, "visibility", "Restricted"),
                    output_tags |-> Get(c, "output_tags", <<>>)]>>
            ELSE <<>>
        export ==
            IF Get(c, "export", FALSE)
            THEN <<[type |-> "export_pdf",
                    export_preset_name |-> Get(c, "export_preset_name", "Default")],
                   [type |-> "download_pdf",
                    output_filename |-> FilenameOf(Get(c, "title", <<>>))],
                   [type |-> "upload_tribble",
                    label |-> Get(c, "title", <<>>)]>>
            ELSE <<>>
    IN  publish \o export

\* mutant of BuildActions: the export actions come before the publish action
BuildActionsExportFirst(c) ==
    LET publish ==
            IF "update" \in DOMAIN c \/ "visibility" \in DOMAIN c \/ "output_tags" \in DOMAIN c
            THEN <<[type |-> "publish",
                    update_mode |-> Get(c, "update", "Partial"),
                    visibility |-> Get(c, "visibility", "Private"),
                    output_tags |-> Get(c, "output_tags", <<>>)]>>
            ELSE <<>>
        export ==
            IF Get(c, "export", FALSE)
            THEN <<[type |-> "export_pdf",
                    export_preset_name |-> Get(c, "export_preset_name", "Default")],
                   [type |-> "download_pdf",
                    output_filename |-> FilenameOf(Get(c, "title", <<>>))],
                   [type |-> "upload_tribble",
                    label |-> Get(c, "title", <<>>)]>>
            ELSE <<>>
    IN  export \o publish

\* ConfigLoader._build_actions_from_publication
BuildActions(c) ==
    LET publish ==
            IF "update" \in DOMAIN c \/ "visibility" \in DOMAIN c \/ "output_tags" \in DOMAIN c
            THEN <<[type |-> "publish",
                    update_mode |-> Get(c, "update", "Partial"),
                    visibility |-> Get(c, "visibility", "Private"),
                    output_tags |-> Get(c, "output_tags", <<>>)]>>
            ELSE <<>>
        export ==
            IF Get(c, "export", FALSE)
            THEN <<[type |-> "export_pdf",
                    export_preset_name |-> Get(c, "export_preset_name", "Default")],
                   [type |-> "download_pdf",
                    output_filename |-> FilenameOf(Get(c, "title", <<>>))],
                   [type |-> "upload_tribble",
                    label |-> Get(c, "title", <<>>)]>>
            ELSE <<>>
    IN  publish \o export

RECURSIVE BuildPublicationsKeepAll(_)
\* mutant of BuildPublications: a publication is added whatever its actions
BuildPublicationsKeepAll(items) ==
    IF items = <<>> THEN <<>>
    ELSE LET it == Head(items)
             acts == IF it.isDict THEN BuildActions(it.value) ELSE <<>>
         IN  (IF it.isDict
              THEN <<[publication_id |-> it.key,
                      title |-> Get(it.value, "title", CharsOf(it.key)),
                      actions |-> acts]>>
              ELSE <<>>)
             \o BuildPublicationsKeepAll(Tail(items))

RECURSIVE BuildPublications(_)
\* the loop over project_data.items() with project.add_publication
BuildPublications(items) ==
    IF items = <<>> THEN <<>>
    ELSE LET it == Head(items)
             acts == IF it.isDict THEN BuildActions(it.value) ELSE <<>>
         IN  (IF it.isDict /\ acts # <<>>
              THEN <<[publication_id |-> it.key,
                      title |-> Get(it.value, "title", CharsOf(it.key)),
                      actions |-> acts]>>
              ELSE <<>>)
             \o BuildPublications(Tail(items))

RECURSIVE BuildProjectsFrom(_)
BuildProjectsFrom(entries) ==
    IF entries = <<>> THEN <<>>
    ELSE LET e == Head(entries)
             pubs == IF e.isDict THEN BuildPublications(e.items) ELSE <<>>
         IN  (IF pubs # <<>>
              THEN <<[project_id |-> e.key, publications |-> pubs]>>
              ELSE <<>>)
             \o BuildProjectsFrom(Tail(entries))

\* ConfigLoader.build_projects_from_config
BuildProjects(cfg) == BuildProjectsFrom(ProjectKeys(cfg))

----------------------------------------------------------------------------
(* The calls a workflow makes for one publication                          *)

\* one call: the client operation, the publication, the index of the action
\* in the publication's list that made it (0: reconciliation), and its result:
\* "raise" or the class of the exception it raised, else how it returned
Call(op, proj, pub, act, result) ==
    [op |-> op, project |-> proj, pub |-> pub, action |-> act, result |-> result]

\* how a call of wait_for_task ends (the values of outcome at "done")
WaitOutcomes == {"return", "Exception", "TimeoutError", "HTTPError", "ConnectionError"}

\* the parameters of wait_for_task besides self
WaitForTaskParams == {"task_key", "task_type", "max_wait", "poll_interval"}

\* the keyword arguments of the call in the reconciliation pass
ReconcileWaitKwargs == {"task_key", "max_wait_seconds", "poll_interval"}

\* the keyword arguments of the other callers (all positional)
PositionalWaitArgs == {"task_key", "task_type"}

\* a Python call binds only keyword arguments that name parameters; any
\* other raises TypeError before the body runs
Binds(kwargs, params) == kwargs \subseteq params

\* how a POST that starts a task ends: it raises, or it returns a result
\* with or without a taskKey
StartResults == {"raise", "nokey", "key"}

\* the outcomes of the wait that follows start result r: only a result with
\* a taskKey is waited for
WaitOutcomesAfter(r) == IF r = "key" THEN WaitOutcomes ELSE {"return"}

\* mutant of AfterAction: an exception does not end the publication's actions
AfterActionGoesOn(ps, p, q, a, raised) ==
    IF a < Len(ps[p].publications[q].actions) THEN <<p, q, a + 1>>
    ELSE IF q < Len(ps[p].publications) THEN <<p, q + 1, 1>>
    ELSE <<p + 1, 1, 1>>

\* the position behind the action (p, q, a) of the compiled list; a raised
\* exception leaves the publication's action loop
AfterAction(ps, p, q, a, raised) ==
    IF ~raised /\ a < Len(ps[p].publications[q].actions) THEN <<p, q, a + 1>>
    ELSE IF q < Len(ps[p].publications) THEN <<p, q + 1, 1>>
    ELSE <<p + 1, 1, 1>>

InitFlowVars ==
    /\ config = <<>>
    /\ remote = {}
    /\ ppc = "start"
    /\ existing_projects = {}
    /\ existing_publications = {}
    /\ ri = 1
    /\ rj = 1
    /\ projects = <<>>
    /\ proj_i = 1
    /\ pub_i = 1
    /\ act_i = 1
    /\ current_pub = 0
    /\ pubCalls = <<>>
    /\ last_export_path = <<>>
    /\ files = {}

----------------------------------------------------------------------------
(* run_publications                                                        *)

\* what the portal may list: two projects and one publication of the first
RemoteBase ==
    { [id |-> "docs", parentId |-> "null"],
      [id |-> "release-notes", parentId |-> "null"],
      [id |-> "guide", parentId |-> "docs"] }

\* the calls of one use of wait_for_task: with arguments that bind, the call
\* runs and ends with w; with arguments that do not, TypeError is raised and
\* wait_for_task does not run
WaitCalls(kwargs, proj, pub, act, w) ==
    IF Binds(kwargs, WaitForTaskParams)
    THEN <<Call("wait_for_task", proj, pub, act, w)>>
    ELSE <<>>

WaitRaises(kwargs, w) == ~Binds(kwargs, WaitForTaskParams) \/ w # "return"

\* mutant of PublishStart: the listed publications are not looked up
PublishStartProjectsOnly(listOk) ==
    /\ ppc = "start"
    /\ IF listOk
       THEN /\ ppc' = "reconcile"
            /\ existing_projects' = {it.id : it \in {x \in remote : x.parentId = "null"}}
            /\ existing_publications' = {}
       ELSE /\ ppc' = "aborted"
            /\ UNCHANGED <<existing_projects, existing_publications>>
    /\ ri' = 1
    /\ rj' = 1
    /\ UNCHANGED <<config, remote, projects, proj_i, pub_i, act_i, current_pub, pubCalls,
                   last_export_path, files>>

\* load_config, the client, get_all_projects_publications and the two
\* lookup dictionaries; a failed listing leaves run_publications
PublishStart(listOk) ==
    /\ ppc = "start"
    /\ IF listOk
       THEN /\ ppc' = "reconcile"
            /\ existing_projects' = {it.id : it \in {x \in remote : x.parentId = "null"}}
            /\ existing_publications' = {it.id : it \in {x \in remote : x.parentId # "null"}}
       ELSE /\ ppc' = "aborted"
            /\ UNCHANGED <<existing_projects, existing_publications>>
    /\ ri' = 1
    /\ rj' = 1
    /\ UNCHANGED <<config, remote, projects, proj_i, pub_i, act_i, current_pub, pubCalls,
                   last_export_path, files>>

\* the position behind entry j of project key i in the reconciliation loops
AfterItem(keys, i, j) ==
    IF j < Len(keys[i].items) THEN <<i, j + 1>> ELSE <<i + 1, 1>>

\* one iteration of the reconciliation loops: a project key that is skipped,
\* or one entry of a project section
ReconcileStep(r, w) ==
    /\ ppc = "reconcile"
    /\ LET keys == ProjectKeys(config) IN
       /\ ri <= Len(keys)
       /\ LET e == keys[ri] IN
          IF ~e.isDict \/ e.key \notin existing_projects \/ e.items = <<>>
          THEN /\ ri' = ri + 1
               /\ rj' = 1
               /\ pubCalls' = <<>>
          ELSE LET it == e.items[rj] IN
               /\ ri' = AfterItem(keys, ri, rj)[1]
               /\ rj' = AfterItem(keys, ri, rj)[2]
               /\ IF it.isDict /\ it.key \notin existing_publications
                  THEN pubCalls' =
                         IF r = "key"
                         THEN <<Call("create_publication", e.key, it.key, 0, r)>>
                              \o WaitCalls(ReconcileWaitKwargs, e.key, it.key, 0, w)
                         ELSE <<Call("create_publication", e.key, it.key, 0, r)>>
                  ELSE pubCalls' = <<>>
    \* task_status.get('status') == 'Success' holds of no status of the portal:
    \* existing_publications is not extended
    /\ UNCHANGED <<config, remote, ppc, existing_projects, existing_publications, projects,
                   proj_i, pub_i, act_i, current_pub, last_export_path, files>>

\* projects = ConfigLoader.build_projects_from_config(config, exporter)
PublishBuild ==
    /\ ppc = "reconcile"
    /\ ri > Len(ProjectKeys(config))
    /\ projects' = BuildProjects(config)
    /\ ppc' = IF projects' = <<>> THEN "done" ELSE "process"
    /\ proj_i' = 1
    /\ pub_i' = 1
    /\ act_i' = 1
    /\ UNCHANGED <<config, remote, existing_projects, existing_publications, ri, rj,
                   current_pub, pubCalls, last_export_path, files>>

\* the calls of publication.publish(...) for start result r and wait outcome w
PublishCalls(proj, pub, act, r, w) ==
    IF r = "key"
    THEN <<Call("update_publication", proj, pub, act, r)>>
         \o WaitCalls(PositionalWaitArgs, proj, pub, act, w)
    ELSE <<Call("update_publication", proj, pub, act, r)>>

\* publish() returns task_info when the result has no taskKey
PublishRaises(r, w) ==
    r = "raise" \/ (r = "key" /\ WaitRaises(PositionalWaitArgs, w))

\* mutant of ExportCalls: a failed start of the export is tried once more
ExportCallsRetried(proj, pub, act, r, w) ==
    IF r = "key"
    THEN <<Call("export_publication_pdf", proj, pub, act, r)>>
         \o WaitCalls(PositionalWaitArgs, proj, pub, act, w)
    ELSE <<Call("export_publication_pdf", proj, pub, act, r),
           Call("export_publication_pdf", proj, pub, act, r)>>

\* the calls of publication.export_to_pdf(...)
ExportCalls(proj, pub, act, r, w) ==
    IF r = "key"
    THEN <<Call("export_publication_pdf", proj, pub, act, r)>>
         \o WaitCalls(PositionalWaitArgs, proj, pub, act, w)
    ELSE <<Call("export_publication_pdf", proj, pub, act, r)>>

\* export_to_pdf() raises "No task key returned from export"
ExportRaises(r, w) ==
    r \in {"raise", "nokey"} \/ WaitRaises(PositionalWaitArgs, w)

\* the fileName field of the storage response: absent, or a name
ApiFileNames == {<<>>, <<"e", "x", "p", "o", "r", "t">>}

\* download_pdf: the name of the file written
DownloadName(output_filename, api_filename, pub) ==
    LET name == IF output_filename # <<>> THEN output_filename
                ELSE IF api_filename # <<>> THEN api_filename
                ELSE CharsOf(pub) \o Pdf
    IN  IF EndsWithPdf(name) THEN name ELSE name \o Pdf

\* what the execution of one action does: the calls it makes, whether it
\* raises, and _last_export_path and the local files after it
Effect(calls, raised, path, fs) ==
    [calls |-> calls, raised |-> raised, path |-> path, files |-> fs]

\* publication.download_pdf(output_filename, download_dir)
DownloadEffect(proj, pub, a, act, path, fs, r, api) ==
    IF r = "raise"
    THEN Effect(<<Call("download_pdf", proj, pub, a, r)>>, TRUE, path, fs)
    ELSE LET out == DownloadName(act.output_filename, api, pub)
         IN  Effect(<<Call("download_pdf", proj, pub, a, "ok")>>, FALSE, out, fs \cup {out})

\* publication.upload_to_tribble(uploader, label, wait_for_processing):
\* ValueError without a path, FileNotFoundError without the file, then
\* upload_pdf and, for a result with a job id, wait_for_processing, whose
\* TimeoutError alone is swallowed
UploadEffect(proj, pub, a, path, fs, waitProc, r, w) ==
    IF path = <<>> \/ path \notin fs
    THEN Effect(<<>>, TRUE, path, fs)
    ELSE IF r = "key" /\ waitProc
    THEN Effect(<<Call("upload_pdf", proj, pub, a, r),
                  Call("wait_for_processing", proj, pub, a, w)>>,
                w \notin {"return", "TimeoutError"}, path, fs)
    ELSE Effect(<<Call("upload_pdf", proj, pub, a, r)>>, r = "raise", path, fs)

\* the branch of the action loop taken for an action of type t
RunBranch(t, proj, pub, a, act, path, fs, waitProc, r, w, api) ==
    CASE t = "publish" ->
            Effect(PublishCalls(proj, pub, a, r, w), PublishRaises(r, w), path, fs)
      [] t = "export_pdf" ->
            Effect(ExportCalls(proj, pub, a, r, w), ExportRaises(r, w), path, fs)
      [] t = "download_pdf" -> DownloadEffect(proj, pub, a, act, path, fs, r, api)
      [] t = "upload_tribble" -> UploadEffect(proj, pub, a, path, fs, waitProc, r, w)
      [] OTHER -> Effect(<<>>, FALSE, path, fs)

\* mutant of PublishBranch, of IngestBranch: every action type is run, as
\* ClickHelpPublication.execute_actions does
AnyBranch(t) == t

\* the if/elif chain of run_publications: publish and export_pdf only
PublishBranch(t) == IF t \in {"publish", "export_pdf"} THEN t ELSE "skip"

\* the if/elif chain of run_tribble_upload: download_pdf and upload_tribble only
IngestBranch(t) == IF t \in {"download_pdf", "upload_tribble"} THEN t ELSE "skip"

\* one iteration of "for action_config in publication.actions" with the
\* except clause that ends the publication; branch is the action type the
\* workflow runs the action as
ActionStep(branch, r, w, api) ==
    /\ ppc = "process"
    /\ LET project == projects[proj_i]
           publication == project.publications[pub_i]
           act == publication.actions[act_i]
           eff == RunBranch(branch, project.project_id, publication.publication_id,
                            act_i, act,
                            IF act_i = 1 THEN <<>> ELSE last_export_path, files,
                            SettingsGet(config, "wait_for_processing", TRUE), r, w, api)
           next == AfterAction(projects, proj_i, pub_i, act_i, eff.raised)
       IN  /\ pubCalls' = (IF act_i = 1 THEN <<>> ELSE pubCalls) \o eff.calls
           /\ last_export_path' = eff.path
           /\ files' = eff.files
           /\ current_pub' = IF act_i = 1 THEN current_pub + 1 ELSE current_pub
           /\ proj_i' = next[1]
           /\ pub_i' = next[2]
           /\ act_i' = next[3]
           /\ ppc' = IF next[1] > Len(projects) THEN "done" ELSE "process"
    /\ UNCHANGED <<config, remote, existing_projects, existing_publications, ri, rj,
                   projects>>

\* the action at hand
ActionAtHand == projects[proj_i].publications[pub_i].actions[act_i]

\* the loop body of run_publications
PublishAction(r, w, api) ==
    /\ ppc = "process"
    /\ ActionStep(PublishBranch(ActionAtHand.type), r, w, api)

----------------------------------------------------------------------------
(* run_tribble_upload                                                      *)

\* load_config, the clients and build_projects_from_config
IngestStart ==
    /\ ppc = "start"
    /\ projects' = BuildProjects(config)
    /\ ppc' = IF projects' = <<>> THEN "done" ELSE "process"
    /\ proj_i' = 1
    /\ pub_i' = 1
    /\ act_i' = 1
    /\ UNCHANGED <<config, remote, existing_projects, existing_publications, ri, rj,
                   current_pub, pubCalls, last_export_path, files>>

\* the loop body of run_tribble_upload
IngestAction(r, w, api) ==
    /\ ppc = "process"
    /\ ActionStep(IngestBranch(ActionAtHand.type), r, w, api)

----------------------------------------------------------------------------
(* ConfigLoader._build_actions_from_publication on arbitrary properties    *)

MaxTitleLen == 3     \* a generated title has at most MaxTitleLen characters

\* the characters of generated titles: one that isalnum(), the space, two of
\* the other characters kept, and two that are removed
TitleAlphabet == {"a", " ", ".", "_", "!", ":"}

Chars_a_pdf == <<"a", ".", "p", "d", "f">>
Chars_a_PDF == <<"a", ".", "P", "D", "F">>

Titles ==
    UNION {[1..n -> TitleAlphabet] : n \in 0..MaxTitleLen}
        \cup {Chars_Guide, Chars_Release, Chars_a_pdf, Chars_a_PDF}

\* the mappings with the key k, one per value, and the mapping without it
Opt(k, values) == {<<>>} \cup {k :> v : v \in values}

\* the publication configurations _build_actions_from_publication is given
ActionPubConfigs ==
    {t @@ u @@ v @@ o @@ e @@ p :
        t \in Opt("title", Titles),
        u \in Opt("update", {"FullReplace"}),
        v \in Opt("visibility", {"Public"}),
        o \in Opt("output_tags", {<<"web">>}),
        e \in Opt("export", BOOLEAN),
        p \in Opt("export_preset_name", {"Print"})}

\* actions = ConfigLoader._build_actions_from_publication(pub_config)
BuildActionsCall ==
    /\ kpc = "input"
    /\ actions' = BuildActions(pub_config)
    /\ kpc' = "compiled"
    /\ UNCHANGED pub_config

InitCompileVars ==
    /\ kpc = "input"
    /\ pub_config = <<>>
    /\ actions = <<>>

----------------------------------------------------------------------------
(* Environment variables and configuration sections of the workflows       *)

\* os.getenv names read with required=True
ClickhelpCreds == {"CLICKHELP_USERNAME", "CLICKHELP_API_KEY"}
TribbleCreds == {"TRIBBLE_API_TOKEN", "TRIBBLE_USER_EMAIL"}
S3Creds == {"AWS_S3_BUCKET_NAME"}

AllCreds == ClickhelpCreds \cup TribbleCreds \cup S3Creds

\* config.get(section, {}).get(name, default)
SectionGet(cfg, section, name, default) ==
    LET secs == SelectSeq(cfg, LAMBDA e : e.key = section)
        its == IF secs = <<>> THEN <<>>
               ELSE SelectSeq(secs[1].items, LAMBDA it : it.key = name)
    IN  IF its = <<>> THEN default ELSE its[1].value

\* the section of the configuration has the key name
SectionHas(cfg, section, name) ==
    \E i \in 1..Len(cfg) :
        /\ cfg[i].key = section
        /\ \E j \in 1..Len(cfg[i].items) : cfg[i].items[j].key = name

\* clickhelp_config.get('portal_url') or get_env_var('CLICKHELP_PORTAL_URL')
\* does not raise
PortalUrlOK(cfg, e) ==
    SectionHas(cfg, "clickhelp", "portal_url") \/ "CLICKHELP_PORTAL_URL" \in e

\* get_env_var raises ValueError for none of the names run_publications reads
PublishCredsOK(cfg, e) == PortalUrlOK(cfg, e) /\ ClickhelpCreds \subseteq e

\* the same for run_tribble_upload
IngestCredsOK(cfg, e) ==
    PortalUrlOK(cfg, e) /\ ClickhelpCreds \subseteq e /\ TribbleCreds \subseteq e

\* the same for the names run_backup reads before it tests the enabled flag
BackupPortalCredsOK(cfg, e) == PortalUrlOK(cfg, e) /\ ClickhelpCreds \subseteq e

\* the s3_backup sections of the configurations: enabled, disabled, and
\* without the flag
S3Sections ==
    { [key |-> "s3_backup", isDict |-> TRUE,
       items |-> <<[key |-> "enabled", isDict |-> FALSE, value |-> b]>>] : b \in BOOLEAN }
    \cup
    { [key |-> "s3_backup", isDict |-> TRUE,
       items |-> <<[key |-> "region", isDict |-> FALSE, value |-> ScalarItem]>>] }

\* mutant of BackupEnabled: backup runs unless it is switched off
BackupEnabledByDefault(cfg) == SectionGet(cfg, "s3_backup", "enabled", TRUE)

\* s3_backup_enabled = s3_backup_config.get('enabled', False)
BackupEnabled(cfg) == SectionGet(cfg, "s3_backup", "enabled", FALSE)

----------------------------------------------------------------------------
(* TribbleUploader.wait_for_processing                                     *)

\* response.status of a status response; "None" when the response has none
JobStatuses == {"processed", "processing", "failed", "queued", "None"}

\* how check_status fails: success false in the body (Exception), or a
\* RequestException of requests.get / raise_for_status
CheckErrors == {"Exception", "HTTPError", "ConnectionError"}

\* mutant of IsProcessed: a failure status ends the wait as well
IsProcessedOrFailed(s) == s \in {"processed", "failed"}

\* status == 'processed'
IsProcessed(s) == s = "processed"

\* entry: start_time = time.time()
EnterProcessing(mw, pi) ==
    /\ jpc = "idle"
    /\ jpc' = "test"
    /\ job_max_wait' = mw
    /\ job_poll_interval' = pi
    /\ job_elapsed' = 0
    /\ job_status' = "None"
    /\ job_outcome' = "none"
    /\ checks' = 0
    /\ job_sleeps' = 0

\* while time.time() - start_time < max_wait: ... raise TimeoutError
ProcessingLoopTest ==
    /\ jpc = "test"
    /\ IF job_elapsed < job_max_wait
       THEN /\ jpc' = "check"
            /\ UNCHANGED job_outcome
       ELSE /\ jpc' = "done"
            /\ job_outcome' = "TimeoutError"
    /\ UNCHANGED <<job_max_wait, job_poll_interval, job_elapsed, job_status, checks,
                   job_sleeps>>

\* the loop body when check_status returns a response with status s after
\* lat seconds: both the 'processing' branch and the else branch sleep
CheckStatus(s, lat) ==
    /\ jpc = "check"
    /\ checks' = checks + 1
    /\ job_elapsed' = job_elapsed + lat
    /\ job_status' = s
    /\ IF IsProcessed(s)
       THEN /\ jpc' = "done"
            /\ job_outcome' = "return"
       ELSE /\ jpc' = "sleep"
            /\ UNCHANGED job_outcome
    /\ UNCHANGED <<job_max_wait, job_poll_interval, job_sleeps>>

\* the loop body when check_status raises: the exception propagates
CheckError(e, lat) ==
    /\ jpc = "check"
    /\ checks' = checks + 1
    /\ job_elapsed' = job_elapsed + lat
    /\ jpc' = "done"
    /\ job_outcome' = e
    /\ UNCHANGED <<job_max_wait, job_poll_interval, job_status, job_sleeps>>

\* time.sleep(poll_interval), which lasts over seconds longer than asked
ProcessingSleep(over) ==
    /\ jpc = "sleep"
    /\ job_sleeps' = job_sleeps + 1
    /\ job_elapsed' = job_elapsed + job_poll_interval + over
    /\ jpc' = "test"
    /\ UNCHANGED <<job_max_wait, job_poll_interval, job_status, job_outcome, checks>>

InitProcVars ==
    /\ jpc = "idle"
    /\ job_max_wait = 0
    /\ job_poll_interval = 1
    /\ job_elapsed = 0
    /\ job_status = "None"
    /\ job_outcome = "none"
    /\ checks = 0
    /\ job_sleeps = 0

----------------------------------------------------------------------------
(* One upload_tribble action of run_tribble_upload:                        *)
(* ClickHelpPublication.upload_to_tribble and TribbleUploader.upload_pdf   *)

\* the local paths of the calls
LocalPaths == {Chars_a_pdf, Chars_a_PDF}

NoResult == [none |-> TRUE]

\* how requests.post and the reading of its response end in upload_pdf: a
\* body with success and a job id, a body with success and no job id, a body
\* without success (Exception), or a RequestException
PostResults == {"job", "nojob", "failure", "HTTPError", "ConnectionError"}

\* how wait_for_processing(job_id) ends
ProcessingOutcomes == {"return", "TimeoutError"} \cup CheckErrors

\* mutant of SwallowedByUpload: no exception of the wait is caught
SwallowsNothing(w) == FALSE

\* try: tribble_uploader.wait_for_processing(job_id) except TimeoutError
SwallowedByUpload(w) == w = "TimeoutError"

\* mutant of FileExists: the test is skipped
FileExistsAlways(p, fs) == TRUE

\* os.path.exists(file_path)
FileExists(p, fs) == p \in fs

\* the action is left by an exception of class e
UploadRaise(e) ==
    /\ up_outcome' = e
    /\ upc' = "report"

\* publication.upload_to_tribble(uploader, label, wait_for_processing) is
\* called; file_path = pdf_path or self._last_export_path
UploadToTribbleCall(p, fs, wf) ==
    /\ upc = "idle"
    /\ upc' = "upload_to_tribble"
    /\ pdf_path' = p
    /\ local_files' = fs
    /\ wait_flag' = wf
    /\ opened' = 0
    /\ posted' = 0
    /\ upload_result' = NoResult
    /\ up_outcome' = "none"
    /\ report' = "none"

\* upload_to_tribble up to the call of upload_pdf: ValueError without a
\* path, FileNotFoundError without the file
UploadToTribbleTests ==
    /\ upc = "upload_to_tribble"
    /\ IF pdf_path = <<>> THEN UploadRaise("ValueError")
       ELSE IF ~FileExists(pdf_path, local_files) THEN UploadRaise("FileNotFoundError")
       ELSE /\ upc' = "upload_pdf"
            /\ UNCHANGED up_outcome
    /\ UNCHANGED <<pdf_path, wait_flag, local_files, opened, posted, upload_result, report>>

\* the file is removed by another process between two steps of the upload
FileRemoved ==
    /\ upc \in {"upload_pdf", "open"}
    /\ pdf_path \in local_files
    /\ local_files' = local_files \ {pdf_path}
    /\ UNCHANGED <<upc, pdf_path, wait_flag, opened, posted, upload_result, up_outcome,
                   report>>

\* upload_pdf: if not os.path.exists(file_path): raise FileNotFoundError
UploadPdfTest ==
    /\ upc = "upload_pdf"
    /\ IF ~FileExists(pdf_path, local_files) THEN UploadRaise("FileNotFoundError")
       ELSE /\ upc' = "open"
            /\ UNCHANGED up_outcome
    /\ UNCHANGED <<pdf_path, wait_flag, local_files, opened, posted, upload_result, report>>

\* upload_pdf: open(file_path, 'rb'), which raises FileNotFoundError itself
\* for a file that is gone
UploadPdfOpen ==
    /\ upc = "open"
    /\ IF pdf_path \in local_files
       THEN /\ opened' = opened + 1
            /\ upc' = "post"
            /\ UNCHANGED up_outcome
       ELSE /\ UNCHANGED opened
            /\ UploadRaise("FileNotFoundError")
    /\ UNCHANGED <<pdf_path, wait_flag, local_files, posted, upload_result, report>>

\* upload_pdf: requests.post and the reading of the response, and back in
\* upload_to_tribble the test that decides on wait_for_processing
UploadPdfPost(r) ==
    /\ upc = "post"
    /\ posted' = posted + 1
    /\ IF r \in {"job", "nojob"}
       THEN /\ upload_result' = [success |-> TRUE,
                                 job_id |-> IF r = "job" THEN "job-1" ELSE "None"]
            /\ IF wait_flag /\ r = "job"
               THEN /\ upc' = "wait"
                    /\ UNCHANGED up_outcome
               ELSE /\ upc' = "report"
                    /\ up_outcome' = "return"
       ELSE /\ UNCHANGED upload_result
            /\ UploadRaise(IF r = "failure" THEN "Exception" ELSE r)
    /\ UNCHANGED <<pdf_path, wait_flag, local_files, opened, report>>

\* upload_to_tribble: the try block around wait_for_processing(job_id),
\* which ends as w, and return upload_result
UploadWait(w) ==
    /\ upc = "wait"
    /\ upc' = "report"
    /\ job_outcome' = w
    /\ up_outcome' = IF w = "return" \/ SwallowedByUpload(w) THEN "return" ELSE w
    /\ UNCHANGED <<pdf_path, wait_flag, local_files, opened, posted, upload_result, report>>

\* run_tribble_upload: the test of upload_result.get('success') after the
\* call, or the except clause of the publication
UploadReport ==
    /\ upc = "report"
    /\ upc' = "done"
    /\ report' = IF up_outcome # "return" THEN "Failed to process publication"
                 ELSE IF upload_result.success THEN "SUCCESS" ELSE "FAILED"
    /\ UNCHANGED <<pdf_path, wait_flag, local_files, opened, posted, upload_result,
                   up_outcome>>

InitUploadVars ==
    /\ upc = "idle"
    /\ pdf_path = <<>>
    /\ wait_flag = TRUE
    /\ local_files = {}
    /\ opened = 0
    /\ posted = 0
    /\ upload_result = NoResult
    /\ up_outcome = "none"
    /\ report = "none"

----------------------------------------------------------------------------
(* ClickHelpClient.delete_storage_file and the paths of the storage API    *)

MaxSegments == 3     \* a storage path is made of 1..MaxSegments pieces

Chars_StorageSlash == <<"S", "t", "o", "r", "a", "g", "e", "/">>
Chars_BackupsSlash == <<"B", "a", "c", "k", "u", "p", "s", "/">>
Chars_File == <<"a", ".", "z", "i", "p">>

\* the pieces the paths of the calls are made of
PathPieces == {Chars_StorageSlash, Chars_BackupsSlash, <<"M", "y">>, Chars_File, <<"/">>}

RECURSIVE PathsOf(_)
\* the paths made of exactly n pieces
PathsOf(n) ==
    IF n = 0 THEN {<<>>}
    ELSE {p \o q : p \in PathPieces, q \in PathsOf(n - 1)}

StoragePaths == UNION {PathsOf(n) : n \in 1..MaxSegments}

\* s.startswith(prefix)
StartsWith(s, prefix) ==
    Len(s) >= Len(prefix) /\ SubSeq(s, 1, Len(prefix)) = prefix

\* the positions at which old occurs in s
Occurrences(s, old) ==
    {i \in 1..(Len(s) - Len(old) + 1) : SubSeq(s, i, i + Len(old) - 1) = old}

\* s.replace(old, '', 1): the first occurrence of old, wherever it is, is
\* removed
RemoveFirst(s, old) ==
    IF Occurrences(s, old) = {} THEN s
    ELSE LET i == CHOOSE k \in Occurrences(s, old) : \A m \in Occurrences(s, old) : k <= m
         IN  SubSeq(s, 1, i - 1) \o SubSeq(s, i + Len(old), Len(s))

RECURSIVE StripSlashes(_)
\* s.strip('/')
StripSlashes(s) ==
    IF s = <<>> THEN s
    ELSE IF Head(s) = "/" THEN StripSlashes(Tail(s))
    ELSE IF s[Len(s)] = "/" THEN StripSlashes(SubSeq(s, 1, Len(s) - 1))
    ELSE s

\* mutant of RelativePath: the path is used as it is
RelativePathWhole(p) == StripSlashes(p)

\* relative_path = file_path.replace('Storage/', '', 1).strip('/')
RelativePath(p) == StripSlashes(RemoveFirst(p, Chars_StorageSlash))

\* delete_storage_file(file_path) up to session.delete(endpoint), with
\* endpoint = f"{portal_url}/api/v1/storage/{relative_path}"
DeleteStorageFile(p) ==
    /\ dpc = "idle"
    /\ dpc' = "called"
    /\ file_path' = p
    /\ relative_path' = RelativePath(p)

InitStorageVars ==
    /\ dpc = "idle"
    /\ file_path = <<>>
    /\ relative_path = <<>>

InitUnitVars == InitProcVars /\ InitUploadVars /\ InitStorageVars

----------------------------------------------------------------------------
(* run_backup and ClickHelpProject.backup_project                          *)

\* the classes of the exceptions of the model; all derive from Exception
ExceptionClasses ==
    {"Exception", "RequestException", "HTTPError", "ConnectionError", "TimeoutError",
     "TypeError", "ValueError", "FileNotFoundError", "ClientError"}

\* mutant of Caught: the loops catch request errors only
CaughtRequestErrorsOnly(e) == e \in {"RequestException", "HTTPError", "ConnectionError"}

\* "except Exception as e: ... continue" of the publication and project loops
Caught(e) == e \in ExceptionClasses

\* the results with which a call reports a failure
FailureResults ==
    {"raise", "Exception", "TimeoutError", "HTTPError", "ConnectionError",
     "ClientError", "OtherError"}

\* mutant of StepAfter: the backup is uploaded before the remote copy is deleted
StepAfterUploadFirst(s) ==
    CASE s = "backup_project" -> "wait_for_task"
      [] s = "wait_for_task" -> "download_backup"
      [] s = "download_backup" -> "upload_backup"
      [] s = "upload_backup" -> "delete_storage_file"
      [] s = "delete_storage_file" -> "cleanup_old_backups"
      [] s = "cleanup_old_backups" -> "os.remove"

\* the statement order of backup_project and of the loop body of run_backup:
\* the call that follows the call s when s does not end the iteration
StepAfter(s) ==
    CASE s = "backup_project" -> "wait_for_task"
      [] s = "wait_for_task" -> "download_backup"
      [] s = "download_backup" -> "delete_storage_file"
      [] s = "delete_storage_file" -> "upload_backup"
      [] s = "upload_backup" -> "cleanup_old_backups"
      [] s = "cleanup_old_backups" -> "os.remove"

\* mutant of AfterDeleteStorage: a failed deletion fails backup_project
AfterDeleteStorageStrict(x) ==
    IF x = "ok" THEN StepAfter("delete_storage_file") ELSE "leave"

\* try: delete_storage_file(...) except Exception: logger.warning(...)
\* whatever the deletion did, backup_project goes on and returns backup_path
AfterDeleteStorage(x) == StepAfter("delete_storage_file")

\* how download_backup, delete_storage_file and cleanup_old_backups end
DownloadResults == {"ok", "raise"}
StorageDeleteResults == {"ok", "raise"}
CleanupResults == {"return", "raise"}

\* how s3_client.upload_file ends
UploadFileResults == {"ok", "ClientError", "OtherError"}

MaxBackupTime == 1   \* the wait for a backup task takes 0..MaxBackupTime seconds

\* the characters of a project id
ProjectChars(id) ==
    CASE id = "docs" -> <<"d", "o", "c", "s">>
      [] id = "release-notes" ->
            <<"r", "e", "l", "e", "a", "s", "e", "-", "n", "o", "t", "e", "s">>

\* datetime.now().strftime("%d-%m-%Y_%H-%M-%S") at second t of the run, which
\* starts at 05-11-2026 08:00:00
Timestamp(t) ==
    <<"0", "5", "-", "1", "1", "-", "2", "0", "2", "6", "_", "0", "8", "-", "0", "0", "-">>
    \o <<ToString(t \div 10), ToString(t % 10)>>

\* f"Storage/Backups/{project_id}-backup-{timestamp}.zip"
OutputFileName(id, t) ==
    Chars_StorageSlash \o Chars_BackupsSlash \o ProjectChars(id)
    \o <<"-", "b", "a", "c", "k", "u", "p", "-">> \o Timestamp(t) \o <<".", "z", "i", "p">>

\* mutant of StoredFileName: the name is generated again when it is used
RegeneratedFileName(name) == OutputFileName(projects[bk_i].project_id, now)

\* output_filename = task_info.get('outputFileName')
StoredFileName(name) == name

\* a portal request that names the storage path
StorageCall(op, path) == [op |-> op, path |-> path, at |-> now]

\* mutant of UploadSucceeded: the result of the upload is not looked at
UploadSucceededAlways(u) == TRUE

\* if upload_result['success'], which upload_backup sets after upload_file
\* has returned
UploadSucceeded(u) == u = "ok"

\* a call of the backup of project proj
BackupCall(op, proj, result) == Call(op, proj, "", 0, result)

\* the project at hand
ProjectAtHand == projects[bk_i].project_id

\* the calls of the project at hand so far
CallsAtHand == IF bstep = "backup_project" THEN <<>> ELSE bkCalls

\* the loop body goes on with the call s
GoOn(s) ==
    /\ bstep' = s
    /\ UNCHANGED <<bpc, bk_i>>

\* the loop goes to the next project
NextProject ==
    /\ bstep' = "backup_project"
    /\ bk_i' = bk_i + 1
    /\ bpc' = IF bk_i + 1 > Len(projects) THEN "done" ELSE "project"

\* an exception of class e leaves the try block of the loop body
Leave(e) ==
    IF Caught(e) THEN NextProject
    ELSE /\ bpc' = "raised"
         /\ UNCHANGED <<bstep, bk_i>>

\* run_backup up to the loop: the configuration, the credentials, the
\* enabled flag, the clients and build_projects_from_config
BackupBegin ==
    /\ bpc = "start"
    /\ IF ~BackupPortalCredsOK(config, env) THEN
            /\ bpc' = "raised"
            /\ UNCHANGED projects
       ELSE IF ~BackupEnabled(config) THEN
            /\ bpc' = "disabled"
            /\ UNCHANGED projects
       ELSE IF ~(S3Creds \subseteq env) THEN
            /\ bpc' = "raised"
            /\ UNCHANGED projects
       ELSE /\ projects' = BuildProjects(config)
            /\ bpc' = IF projects' = <<>> THEN "done" ELSE "project"
    /\ bstep' = "backup_project"
    /\ bk_i' = 1
    /\ UNCHANGED <<config, bkCalls, backup_files, now, task_output_file, storage_calls>>

\* exporter.backup_project(...) and the test of the task key
BackupStartTask(r) ==
    /\ bpc = "project"
    /\ bstep = "backup_project"
    /\ bkCalls' = <<BackupCall("backup_project", ProjectAtHand, r)>>
    /\ CASE r = "key" -> GoOn(StepAfter("backup_project"))
         [] r = "nokey" -> Leave("Exception")
         [] r = "raise" -> Leave("RequestException")
    /\ storage_calls' = <<StorageCall("backup_project", OutputFileName(ProjectAtHand, now))>>
    /\ task_output_file' = IF r = "raise" THEN <<>> ELSE OutputFileName(ProjectAtHand, now)
    /\ UNCHANGED <<config, projects, backup_files, now>>

\* exporter.wait_for_task(task_key, "backup"), which takes dt seconds
BackupWait(w, dt) ==
    /\ bpc = "project"
    /\ bstep = "wait_for_task"
    /\ bkCalls' = bkCalls \o WaitCalls(PositionalWaitArgs, ProjectAtHand, "", 0, w)
    /\ IF WaitRaises(PositionalWaitArgs, w)
       THEN Leave(IF Binds(PositionalWaitArgs, WaitForTaskParams) THEN w ELSE "TypeError")
       ELSE GoOn(StepAfter("wait_for_task"))
    /\ now' = now + dt
    /\ UNCHANGED <<config, projects, backup_files, task_output_file, storage_calls>>

\* exporter.download_backup(output_filename, local_path)
BackupDownload(d) ==
    /\ bpc = "project"
    /\ bstep = "download_backup"
    /\ bkCalls' = Append(bkCalls, BackupCall("download_backup", ProjectAtHand, d))
    /\ IF d = "ok"
       THEN /\ backup_files' = backup_files \cup {ProjectAtHand}
            /\ GoOn(StepAfter("download_backup"))
       ELSE /\ UNCHANGED backup_files
            /\ Leave("Exception")
    /\ storage_calls' = Append(storage_calls,
                               StorageCall("download_backup", RelativePath(StoredFileName(task_output_file))))
    /\ UNCHANGED <<config, projects, now, task_output_file>>

\* the try block around exporter.delete_storage_file(output_filename)
BackupDeleteRemote(x) ==
    /\ bpc = "project"
    /\ bstep = "delete_storage_file"
    /\ bkCalls' = Append(bkCalls, BackupCall("delete_storage_file", ProjectAtHand, x))
    /\ IF AfterDeleteStorage(x) = "leave"
       THEN Leave("RequestException")
       ELSE GoOn(AfterDeleteStorage(x))
    /\ storage_calls' = Append(storage_calls,
                               StorageCall("delete_storage_file", RelativePath(StoredFileName(task_output_file))))
    /\ UNCHANGED <<config, projects, backup_files, now, task_output_file>>

\* s3_uploader.upload_backup(backup_path, s3_folder) and the test of its
\* result: FileNotFoundError without the file; a failed upload_file is
\* reported in the result, and the iteration ends without cleanup
BackupUpload(u) ==
    /\ bpc = "project"
    /\ bstep = "upload_backup"
    /\ IF ProjectAtHand \notin backup_files
       THEN /\ UNCHANGED bkCalls
            /\ Leave("FileNotFoundError")
       ELSE /\ bkCalls' = Append(bkCalls, BackupCall("upload_backup", ProjectAtHand, u))
            /\ IF UploadSucceeded(u) THEN GoOn(StepAfter("upload_backup")) ELSE NextProject
    /\ UNCHANGED <<config, projects, backup_files, now, task_output_file, storage_calls>>

\* s3_uploader.cleanup_old_backups(s3_folder, retention_count)
BackupCleanup(c) ==
    /\ bpc = "project"
    /\ bstep = "cleanup_old_backups"
    /\ bkCalls' = Append(bkCalls, BackupCall("cleanup_old_backups", ProjectAtHand, c))
    /\ IF c = "return" THEN GoOn(StepAfter("cleanup_old_backups")) ELSE Leave("Exception")
    /\ UNCHANGED <<config, projects, backup_files, now, task_output_file, storage_calls>>

\* if os.path.exists(backup_path): os.remove(backup_path)
BackupRemoveLocal ==
    /\ bpc = "project"
    /\ bstep = "os.remove"
    /\ IF ProjectAtHand \in backup_files
       THEN /\ bkCalls' = Append(bkCalls, BackupCall("os.remove", ProjectAtHand, "ok"))
            /\ backup_files' = backup_files \ {ProjectAtHand}
       ELSE UNCHANGED <<bkCalls, backup_files>>
    /\ NextProject
    /\ UNCHANGED <<config, projects, now, task_output_file, storage_calls>>

InitBackupVars ==
    /\ bpc = "start"
    /\ bstep = "backup_project"
    /\ bk_i = 1
    /\ bkCalls = <<>>
    /\ backup_files = {}
    /\ now = 0
    /\ task_output_file = <<>>
    /\ storage_calls = <<>>

----------------------------------------------------------------------------
(* src/clickhelper.py main and run_all_workflows                           *)

\* choices=['publish', 'tribble-upload', 'backup', 'all']
Commands == {"publish", "tribble-upload", "backup", "all"}

\* run_all_workflows: run_publications, run_tribble_upload, run_backup
WorkflowOrder == <<"publish", "tribble-upload", "backup">>

\* the workflow main starts with
FirstWorkflow(cmd) == IF cmd = "all" THEN WorkflowOrder[1] ELSE cmd

\* what follows the return of workflow wf
WorkflowAfter(cmd, wf) ==
    IF cmd = "all" /\ wf = WorkflowOrder[1] THEN WorkflowOrder[2]
    ELSE IF cmd = "all" /\ wf = WorkflowOrder[2] THEN WorkflowOrder[3]
    ELSE "exit"

\* the service the operation op sends its request to
ServiceOf(op) ==
    CASE op \in {"upload_pdf", "wait_for_processing"} -> "tribble"
      [] op \in {"upload_backup", "cleanup_old_backups"} -> "s3"
      [] op = "os.remove" -> "local"
      [] OTHER -> "portal"

Range(f) == {f[i] : i \in DOMAIN f}

\* the calls the step adds to the log of the publication at hand
NewPubCalls ==
    SubSeq(pubCalls', (IF act_i = 1 THEN 0 ELSE Len(pubCalls)) + 1, Len(pubCalls'))

\* the calls the step adds to the log of the project at hand
NewBackupCalls == SubSeq(bkCalls', Len(CallsAtHand) + 1, Len(bkCalls'))

\* the record of the requests and of the failed calls of a step of workflow wf
Track(wf, new) ==
    /\ requests' = requests \cup ({ServiceOf(c.op) : c \in Range(new)} \ {"local"})
    /\ failures' = failures \cup
                     (IF \E c \in Range(new) : c.result \in FailureResults THEN {wf} ELSE {})

\* main: the dispatch on args.command
Dispatch ==
    /\ mpc = "dispatch"
    /\ mpc' = FirstWorkflow(command)
    /\ UNCHANGED <<command, env, requests, failures, error>>

\* run_publications from its first line to the end of the listing: a missing
\* credential raises ValueError, a failed listing raises its request error
RunPublicationsStart(listOk) ==
    /\ mpc = "publish"
    /\ ppc = "start"
    /\ IF ~PublishCredsOK(config, env)
       THEN /\ mpc' = "raised"
            /\ error' = "ValueError"
            /\ UNCHANGED <<flowVars, requests>>
       ELSE /\ PublishStart(listOk)
            /\ requests' = requests \cup {"portal"}
            /\ mpc' = IF listOk THEN mpc ELSE "raised"
            /\ error' = IF listOk THEN error ELSE "RequestException"
    /\ UNCHANGED <<command, env, failures>>

\* run_tribble_upload from its first line to build_projects_from_config
RunTribbleUploadStart ==
    /\ mpc = "tribble-upload"
    /\ ppc = "start"
    /\ IF ~IngestCredsOK(config, env)
       THEN /\ mpc' = "raised"
            /\ error' = "ValueError"
            /\ UNCHANGED flowVars
       ELSE /\ IngestStart
            /\ UNCHANGED <<mpc, error>>
    /\ UNCHANGED <<command, env, requests, failures>>

\* a step of run_backup within the process: an exception that leaves
\* run_backup ends the process
RunBackupStep(wasStart) ==
    /\ mpc' = IF bpc' = "raised" THEN "raised" ELSE mpc
    /\ error' = IF bpc' = "raised"
                THEN (IF wasStart THEN "ValueError" ELSE "Exception")
                ELSE error
    /\ UNCHANGED <<command, env>>

\* the workflow at hand has returned
WorkflowReturned ==
    \/ mpc \in {"publish", "tribble-upload"} /\ ppc = "done"
    \/ mpc = "backup" /\ bpc \in {"done", "disabled"}

\* the return of a workflow function: run_all_workflows calls the next one,
\* which starts from the configuration file again; main returns after the last
WorkflowReturn ==
    /\ mpc \in {"publish", "tribble-upload", "backup"}
    /\ WorkflowReturned
    /\ mpc' = WorkflowAfter(command, mpc)
    /\ IF mpc' = "exit"
       THEN UNCHANGED <<ppc, existing_projects, existing_publications, ri, rj, projects,
                        proj_i, pub_i, act_i, current_pub, pubCalls, last_export_path>>
       ELSE /\ ppc' = "start"
            /\ existing_projects' = {}
            /\ existing_publications' = {}
            /\ ri' = 1
            /\ rj' = 1
            /\ projects' = <<>>
            /\ proj_i' = 1
            /\ pub_i' = 1
            /\ act_i' = 1
            /\ current_pub' = 0
            /\ pubCalls' = <<>>
            /\ last_export_path' = <<>>
    /\ UNCHANGED <<config, remote, files, command, env, requests, failures, error>>

InitMainVars ==
    /\ mpc = "idle"
    /\ command = "all"
    /\ env = {}
    /\ requests = {}
    /\ failures = {}
    /\ error = "none"

----------------------------------------------------------------------------
(* SpecPoll: one call of wait_for_task against an arbitrary portal         *)

PollCall ==
    /\ wpc = "idle"
    /\ \E tt \in TaskTypes, mw \in (-1)..MaxWaitArg, pi \in 1..MaxPollArg :
          EnterWait(tt, mw, pi)
    /\ UNCHANGED <<cleanupVars, unitVars, flowVars, compileVars, backupVars, mainVars>>

PollLoopTest == LoopTest /\ UNCHANGED <<cleanupVars, unitVars, flowVars, compileVars, backupVars, mainVars>>

PollFetchStatus ==
    /\ \E s \in StatusResponses, lat \in 0..MaxLatency : FetchStatus(s, lat)
    /\ UNCHANGED <<cleanupVars, unitVars, flowVars, compileVars, backupVars, mainVars>>

PollFetchError ==
    /\ \E e \in FetchErrors, lat \in 0..MaxLatency : FetchError(e, lat)
    /\ UNCHANGED <<cleanupVars, unitVars, flowVars, compileVars, backupVars, mainVars>>

PollSleep ==
    /\ \E over \in 0..MaxOvershoot : Sleep(over)
    /\ UNCHANGED <<cleanupVars, unitVars, flowVars, compileVars, backupVars, mainVars>>

InitPollVars ==
    /\ wpc = "idle"
    /\ task_type = "task"
    /\ max_wait = 0
    /\ poll_interval = 1
    /\ elapsed = 0
    /\ lastFetch = "none"
    /\ status = NoStatus
    /\ outcome = "none"
    /\ errmsg = <<>>
    /\ retval = NoStatus
    /\ fetches = 0
    /\ sleeps = 0

InitPoll ==
    /\ InitPollVars
    /\ InitUnitVars
    /\ InitCleanupVars
    /\ InitCompileVars
    /\ InitBackupVars
    /\ InitMainVars
    /\ InitFlowVars
    /\ InitCompileVars
    /\ InitBackupVars
    /\ InitMainVars

NextPoll ==
    \/ PollCall
    \/ PollLoopTest
    \/ PollFetchStatus
    \/ PollFetchError
    \/ PollSleep

SpecPoll == InitPoll /\ [][NextPoll]_vars

----------------------------------------------------------------------------
(* SpecCleanup: one call of cleanup_old_backups on an arbitrary folder     *)

InitCleanup ==
    /\ InitPollVars
    /\ InitUnitVars
    /\ InitFlowVars
    /\ InitCompileVars
    /\ InitBackupVars
    /\ InitMainVars
    /\ cpc = "idle"
    /\ \E n \in 0..MaxListing :
          bucket \in Listings(n)
    /\ retention_count \in 0..MaxRetention
    /\ backups_to_delete = <<>>
    /\ di = 0
    /\ deleted_count = 0
    /\ attempted = <<>>
    /\ cresult = "none"
    /\ creturn = 0

CleanupCall ==
    /\ \E listOk \in BOOLEAN : CleanupStart(listOk)
    /\ UNCHANGED <<pollVars, unitVars, flowVars, compileVars, backupVars, mainVars>>

CleanupDelete ==
    /\ \E r \in DeleteResults : DeleteNext(r)
    /\ UNCHANGED <<pollVars, unitVars, flowVars, compileVars, backupVars, mainVars>>

NextCleanup ==
    \/ CleanupCall
    \/ CleanupDelete

SpecCleanup == InitCleanup /\ [][NextCleanup]_vars

----------------------------------------------------------------------------
(* SpecPublish: one run of run_publications                                *)

InitPublish ==
    /\ InitPollVars
    /\ InitUnitVars
    /\ InitCleanupVars
    /\ InitCompileVars
    /\ InitBackupVars
    /\ InitMainVars
    /\ config \in {<<ClickhelpSection>> \o ps : ps \in ProjectSections(1, MaxPubsTotal)}
    /\ remote \in SUBSET RemoteBase
    /\ ppc = "start"
    /\ existing_projects = {}
    /\ existing_publications = {}
    /\ ri = 1
    /\ rj = 1
    /\ projects = <<>>
    /\ proj_i = 1
    /\ pub_i = 1
    /\ act_i = 1
    /\ current_pub = 0
    /\ pubCalls = <<>>
    /\ last_export_path = <<>>
    /\ files = {}

PubStart ==
    /\ \E listOk \in BOOLEAN : PublishStart(listOk)
    /\ UNCHANGED <<pollVars, cleanupVars, unitVars, compileVars, backupVars, mainVars>>

PubReconcile ==
    /\ \E r \in StartResults : \E w \in WaitOutcomesAfter(r) : ReconcileStep(r, w)
    /\ UNCHANGED <<pollVars, cleanupVars, unitVars, compileVars, backupVars, mainVars>>

PubBuild == PublishBuild /\ UNCHANGED <<pollVars, cleanupVars, unitVars, compileVars, backupVars, mainVars>>

PubAction ==
    /\ \E r \in StartResults : \E w \in WaitOutcomesAfter(r) : PublishAction(r, w, <<>>)
    /\ UNCHANGED <<pollVars, cleanupVars, unitVars, compileVars, backupVars, mainVars>>

NextPublish ==
    \/ PubStart
    \/ PubReconcile
    \/ PubBuild
    \/ PubAction

SpecPublish == InitPublish /\ [][NextPublish]_vars

----------------------------------------------------------------------------
(* SpecIngest: one run of run_tribble_upload                               *)

InitIngest ==
    /\ InitPollVars
    /\ InitUnitVars
    /\ InitCleanupVars
    /\ InitCompileVars
    /\ InitBackupVars
    /\ InitMainVars
    /\ config \in {<<ClickhelpSection>> \o st \o ps :
                     st \in {<<>>} \cup {<<x>> : x \in SettingsSections},
                     ps \in ProjectSections(1, MaxPubsTotal)}
    /\ remote = {}
    /\ ppc = "start"
    /\ existing_projects = {}
    /\ existing_publications = {}
    /\ ri = 1
    /\ rj = 1
    /\ projects = <<>>
    /\ proj_i = 1
    /\ pub_i = 1
    /\ act_i = 1
    /\ current_pub = 0
    /\ pubCalls = <<>>
    /\ last_export_path = <<>>
    /\ files = {}

IngStart == IngestStart /\ UNCHANGED <<pollVars, cleanupVars, unitVars, compileVars, backupVars, mainVars>>

IngAction ==
    /\ \E r \in StartResults : \E w \in WaitOutcomesAfter(r) : \E api \in ApiFileNames :
          IngestAction(r, w, api)
    /\ UNCHANGED <<pollVars, cleanupVars, unitVars, compileVars, backupVars, mainVars>>

NextIngest ==
    \/ IngStart
    \/ IngAction

SpecIngest == InitIngest /\ [][NextIngest]_vars

----------------------------------------------------------------------------
(* SpecActions: one call of _build_actions_from_publication                *)

InitActions ==
    /\ InitPollVars
    /\ InitUnitVars
    /\ InitCleanupVars
    /\ InitFlowVars
    /\ InitBackupVars
    /\ InitMainVars
    /\ kpc = "input"
    /\ pub_config \in ActionPubConfigs
    /\ actions = <<>>

ActCompile ==
    /\ BuildActionsCall
    /\ UNCHANGED <<pollVars, cleanupVars, unitVars, flowVars, backupVars, mainVars>>

NextActions == ActCompile

SpecActions == InitActions /\ [][NextActions]_vars

----------------------------------------------------------------------------
(* SpecBackup: one run of run_backup                                       *)

\* the variables of the workflows that run_backup does not use
flowRest == <<remote, ppc, existing_projects, existing_publications, ri, rj, proj_i, pub_i,
              act_i, current_pub, pubCalls, last_export_path, files>>

\* the environments: every credential set, and one missing per service
Envs ==
    {AllCreds} \cup
    {AllCreds \ {c} : c \in {"CLICKHELP_API_KEY", "TRIBBLE_API_TOKEN", "AWS_S3_BUCKET_NAME"}}

InitBackup ==
    /\ InitPollVars
    /\ InitUnitVars
    /\ InitCleanupVars
    /\ InitCompileVars
    /\ InitBackupVars
    /\ config \in {<<ClickhelpSection>> \o s3 \o ps :
                     s3 \in {<<>>} \cup {<<x>> : x \in S3Sections},
                     ps \in ProjectSections(1, MaxPubsTotal)}
    /\ remote = {}
    /\ ppc = "start"
    /\ existing_projects = {}
    /\ existing_publications = {}
    /\ ri = 1
    /\ rj = 1
    /\ projects = <<>>
    /\ proj_i = 1
    /\ pub_i = 1
    /\ act_i = 1
    /\ current_pub = 0
    /\ pubCalls = <<>>
    /\ last_export_path = <<>>
    /\ files = {}
    /\ mpc = "idle"
    /\ command = "backup"
    /\ env \in Envs \ {AllCreds \ {"TRIBBLE_API_TOKEN"}}
    /\ requests = {}
    /\ failures = {}
    /\ error = "none"

\* what a step of run_backup on its own leaves alone
BackupFrame ==
    /\ Track("backup", NewBackupCalls)
    /\ UNCHANGED <<mpc, command, env, error>>
    /\ UNCHANGED <<pollVars, cleanupVars, unitVars, compileVars, flowRest>>

BkBegin == BackupBegin /\ BackupFrame

BkStartTask == (\E r \in StartResults : BackupStartTask(r)) /\ BackupFrame

BkWait == (\E w \in WaitOutcomes, dt \in 0..MaxBackupTime : BackupWait(w, dt)) /\ BackupFrame

BkDownload == (\E d \in DownloadResults : BackupDownload(d)) /\ BackupFrame

BkDeleteRemote == (\E x \in StorageDeleteResults : BackupDeleteRemote(x)) /\ BackupFrame

BkUpload == (\E u \in UploadFileResults : BackupUpload(u)) /\ BackupFrame

BkCleanup == (\E c \in CleanupResults : BackupCleanup(c)) /\ BackupFrame

BkRemoveLocal == BackupRemoveLocal /\ BackupFrame

NextBackup ==
    \/ BkBegin
    \/ BkStartTask
    \/ BkWait
    \/ BkDownload
    \/ BkDeleteRemote
    \/ BkUpload
    \/ BkCleanup
    \/ BkRemoveLocal

SpecBackup == InitBackup /\ [][NextBackup]_vars

----------------------------------------------------------------------------
(* SpecMain: one run of the process, from main to its end                  *)

MaxPubsMain == 2     \* a configuration of SpecMain has at most MaxPubsMain publications

\* the publication configurations of SpecMain: with and without a publish action
MainPubConfigs ==
    { [title |-> Chars_Guide, export |-> TRUE],
      [update |-> "FullReplace", output_tags |-> <<"web">>, export |-> TRUE,
       export_preset_name |-> "Print"] }

MainProjectSections ==
    {ps \in ProjectSections(1, MaxPubsMain) :
        \A i \in 1..Len(ps) : \A j \in 1..Len(ps[i].items) :
            ps[i].items[j].value \in MainPubConfigs}

InitMain ==
    /\ InitPollVars
    /\ InitUnitVars
    /\ InitCleanupVars
    /\ InitCompileVars
    /\ InitBackupVars
    /\ config \in {<<ClickhelpSection>> \o s3 \o ps :
                     s3 \in {<<>>} \cup {<<x>> : x \in {y \in S3Sections : BackupEnabled(<<y>>)}},
                     ps \in MainProjectSections}
    /\ remote = RemoteBase
    /\ ppc = "start"
    /\ existing_projects = {}
    /\ existing_publications = {}
    /\ ri = 1
    /\ rj = 1
    /\ projects = <<>>
    /\ proj_i = 1
    /\ pub_i = 1
    /\ act_i = 1
    /\ current_pub = 0
    /\ pubCalls = <<>>
    /\ last_export_path = <<>>
    /\ files = {}
    /\ mpc = "dispatch"
    /\ command \in Commands
    /\ env \in Envs
    /\ requests = {}
    /\ failures = {}
    /\ error = "none"

\* what a step of run_publications or run_tribble_upload leaves alone
FlowFrame == UNCHANGED <<pollVars, cleanupVars, unitVars, compileVars, backupVars>>

\* what a step of run_backup within the process leaves alone
MainBackupFrame(wasStart) ==
    /\ mpc = "backup"
    /\ Track("backup", NewBackupCalls)
    /\ RunBackupStep(wasStart)
    /\ UNCHANGED <<pollVars, cleanupVars, unitVars, compileVars, flowRest>>

MainDispatch ==
    /\ Dispatch
    /\ UNCHANGED <<pollVars, cleanupVars, unitVars, compileVars, flowVars, backupVars>>

MainPublishStart ==
    /\ \E listOk \in BOOLEAN : RunPublicationsStart(listOk)
    /\ FlowFrame

MainReconcile ==
    /\ mpc = "publish"
    /\ \E r \in StartResults : \E w \in WaitOutcomesAfter(r) : ReconcileStep(r, w)
    /\ Track("publish", pubCalls')
    /\ UNCHANGED <<mpc, command, env, error>>
    /\ FlowFrame

MainBuild ==
    /\ mpc = "publish"
    /\ PublishBuild
    /\ UNCHANGED mainVars
    /\ FlowFrame

MainPublishAction ==
    /\ mpc = "publish"
    /\ \E r \in StartResults : \E w \in WaitOutcomesAfter(r) : PublishAction(r, w, <<>>)
    /\ Track("publish", NewPubCalls)
    /\ UNCHANGED <<mpc, command, env, error>>
    /\ FlowFrame

MainIngestStart == RunTribbleUploadStart /\ FlowFrame

MainIngestAction ==
    /\ mpc = "tribble-upload"
    /\ \E r \in StartResults : \E w \in WaitOutcomesAfter(r) : \E api \in ApiFileNames :
          IngestAction(r, w, api)
    /\ Track("tribble-upload", NewPubCalls)
    /\ UNCHANGED <<mpc, command, env, error>>
    /\ FlowFrame

MainBackupBegin == BackupBegin /\ MainBackupFrame(TRUE)

MainBackupStartTask == (\E r \in StartResults : BackupStartTask(r)) /\ MainBackupFrame(FALSE)

MainBackupWait == (\E w \in WaitOutcomes, dt \in 0..MaxBackupTime : BackupWait(w, dt)) /\ MainBackupFrame(FALSE)

MainBackupDownload == (\E d \in DownloadResults : BackupDownload(d)) /\ MainBackupFrame(FALSE)

MainBackupDeleteRemote ==
    (\E x \in StorageDeleteResults : BackupDeleteRemote(x)) /\ MainBackupFrame(FALSE)

MainBackupUpload == (\E u \in UploadFileResults : BackupUpload(u)) /\ MainBackupFrame(FALSE)

MainBackupCleanup == (\E c \in CleanupResults : BackupCleanup(c)) /\ MainBackupFrame(FALSE)

MainBackupRemoveLocal == BackupRemoveLocal /\ MainBackupFrame(FALSE)

MainWorkflowReturn ==
    /\ WorkflowReturn
    /\ UNCHANGED <<pollVars, cleanupVars, unitVars, compileVars, backupVars>>

NextMain ==
    \/ MainDispatch
    \/ MainPublishStart
    \/ MainReconcile
    \/ MainBuild
    \/ MainPublishAction
    \/ MainIngestStart
    \/ MainIngestAction
    \/ MainBackupBegin
    \/ MainBackupStartTask
    \/ MainBackupWait
    \/ MainBackupDownload
    \/ MainBackupDeleteRemote
    \/ MainBackupUpload
    \/ MainBackupCleanup
    \/ MainBackupRemoveLocal
    \/ MainWorkflowReturn

SpecMain == InitMain /\ [][NextMain]_vars

----------------------------------------------------------------------------
(* SpecOps: the operations that issue requests, each on its own: a run of  *)
(* the process, or a call of cleanup_old_backups                           *)

InitOps == InitMain \/ InitCleanup

OpsCleanupCall == mpc = "idle" /\ CleanupCall

OpsCleanupDelete == mpc = "idle" /\ CleanupDelete

NextOps ==
    \/ MainDispatch
    \/ MainPublishStart
    \/ MainReconcile
    \/ MainBuild
    \/ MainPublishAction
    \/ MainIngestStart
    \/ MainIngestAction
    \/ MainBackupBegin
    \/ MainBackupStartTask
    \/ MainBackupWait
    \/ MainBackupDownload
    \/ MainBackupDeleteRemote
    \/ MainBackupUpload
    \/ MainBackupCleanup
    \/ MainBackupRemoveLocal
    \/ MainWorkflowReturn
    \/ OpsCleanupCall
    \/ OpsCleanupDelete

SpecOps == InitOps /\ [][NextOps]_vars

----------------------------------------------------------------------------
(* SpecPollFair: SpecPoll with a call that is not suspended for ever: the  *)
(* statements of wait_for_task are executed, and get_task_status and       *)
(* time.sleep come back                                                    *)

PollRuns == PollLoopTest \/ PollFetchStatus \/ PollFetchError \/ PollSleep

SpecPollFair == SpecPoll /\ WF_vars(PollRuns)

----------------------------------------------------------------------------
(* SpecProcessing: calls of wait_for_processing                            *)

UnitFrame == UNCHANGED <<pollVars, cleanupVars, flowVars, compileVars, backupVars, mainVars>>

InitProcessing ==
    /\ InitPollVars
    /\ InitUnitVars
    /\ InitCleanupVars
    /\ InitFlowVars
    /\ InitCompileVars
    /\ InitBackupVars
    /\ InitMainVars

ProcCall ==
    /\ \E mw \in 0..MaxWaitArg, pi \in 1..MaxPollArg : EnterProcessing(mw, pi)
    /\ UnitFrame
    /\ UNCHANGED <<uploadVars, storageVars>>

ProcLoopTest == ProcessingLoopTest /\ UnitFrame /\ UNCHANGED <<uploadVars, storageVars>>

ProcCheckStatus ==
    /\ \E s \in JobStatuses, lat \in 0..MaxLatency : CheckStatus(s, lat)
    /\ UnitFrame
    /\ UNCHANGED <<uploadVars, storageVars>>

ProcCheckError ==
    /\ \E e \in CheckErrors, lat \in 0..MaxLatency : CheckError(e, lat)
    /\ UnitFrame
    /\ UNCHANGED <<uploadVars, storageVars>>

ProcSleep ==
    /\ \E over \in 0..MaxOvershoot : ProcessingSleep(over)
    /\ UnitFrame
    /\ UNCHANGED <<uploadVars, storageVars>>

NextProcessing ==
    \/ ProcCall
    \/ ProcLoopTest
    \/ ProcCheckStatus
    \/ ProcCheckError
    \/ ProcSleep

SpecProcessing == InitProcessing /\ [][NextProcessing]_vars

----------------------------------------------------------------------------
(* SpecUpload: upload_tribble actions, each on its own                     *)

InitUpload ==
    /\ InitPollVars
    /\ InitUnitVars
    /\ InitCleanupVars
    /\ InitFlowVars
    /\ InitCompileVars
    /\ InitBackupVars
    /\ InitMainVars

UpCall ==
    /\ \E p \in LocalPaths \cup {<<>>}, fs \in SUBSET LocalPaths, wf \in BOOLEAN :
          UploadToTribbleCall(p, fs, wf)
    /\ UnitFrame
    /\ UNCHANGED <<procVars, storageVars>>

UpTests == UploadToTribbleTests /\ UnitFrame /\ UNCHANGED <<procVars, storageVars>>

UpFileRemoved == FileRemoved /\ UnitFrame /\ UNCHANGED <<procVars, storageVars>>

UpPdfTest == UploadPdfTest /\ UnitFrame /\ UNCHANGED <<procVars, storageVars>>

UpPdfOpen == UploadPdfOpen /\ UnitFrame /\ UNCHANGED <<procVars, storageVars>>

UpPdfPost ==
    /\ \E r \in PostResults : UploadPdfPost(r)
    /\ UnitFrame
    /\ UNCHANGED <<procVars, storageVars>>

UpWait ==
    /\ \E w \in ProcessingOutcomes : UploadWait(w)
    /\ UnitFrame
    /\ UNCHANGED <<jpc, job_max_wait, job_poll_interval, job_elapsed, job_status, checks,
                   job_sleeps, storageVars>>

UpReport == UploadReport /\ UnitFrame /\ UNCHANGED <<procVars, storageVars>>

NextUpload ==
    \/ UpCall
    \/ UpTests
    \/ UpFileRemoved
    \/ UpPdfTest
    \/ UpPdfOpen
    \/ UpPdfPost
    \/ UpWait
    \/ UpReport

SpecUpload == InitUpload /\ [][NextUpload]_vars

----------------------------------------------------------------------------
(* SpecStorage: calls of delete_storage_file                               *)

InitStorage ==
    /\ InitPollVars
    /\ InitUnitVars
    /\ InitCleanupVars
    /\ InitFlowVars
    /\ InitCompileVars
    /\ InitBackupVars
    /\ InitMainVars

StorDelete ==
    /\ \E p \in StoragePaths : DeleteStorageFile(p)
    /\ UnitFrame
    /\ UNCHANGED <<procVars, uploadVars>>

NextStorage == StorDelete

SpecStorage == InitStorage /\ [][NextStorage]_vars

----------------------------------------------------------------------------
(* Properties of wait_for_task (checked under SpecPoll)                    *)

\* the step is a call of get_task_status that returned a status dictionary
GotStatus == wpc = "fetch" /\ lastFetch' = "status"

\* C1: while every fetched status has isSucceeded null and overallProgress
\* below maxOverallProgress the poller does not return: such a poll leads to
\* a sleep of at least poll_interval, the sleep leads back to the loop test
\* without a fetch, the test polls again while elapsed < max_wait and raises
\* TimeoutError once the elapsed time has reached max_wait.
C1_PendingSleepsUntilTimeout ==
    [][ /\ ( /\ GotStatus
             /\ status'.isSucceeded = "null"
             /\ OverallProgressOf(status') < MaxProgressOf(status') )
           => (wpc' = "sleep" /\ outcome' = "none" /\ retval' = NoStatus)
        /\ wpc = "sleep"
           => ( /\ wpc' = "test"
                /\ sleeps' = sleeps + 1
                /\ elapsed' >= elapsed + poll_interval
                /\ fetches' = fetches
                /\ outcome' = "none" )
        /\ (wpc = "test" /\ elapsed < max_wait)
           => (wpc' = "fetch" /\ outcome' = "none")
        /\ (wpc = "test" /\ elapsed >= max_wait)
           => ( /\ wpc' = "done"
                /\ outcome' = "TimeoutError"
                /\ errmsg' = TimeoutMessage(task_type, max_wait)
                /\ fetches' = fetches )
      ]_vars

\* witness of C1: a call that timed out after at least two polls and two
\* sleeps, the last status still pending with isSucceeded null
C1_Witness ==
    /\ wpc = "done"
    /\ outcome = "TimeoutError"
    /\ fetches >= 2
    /\ sleeps >= 2
    /\ lastFetch = "status"
    /\ status.isSucceeded = "null"
    /\ OverallProgressOf(status) < MaxProgressOf(status)

\* C2: a fetched status with isSucceeded true and overallProgress equal to
\* maxOverallProgress is returned on that poll, without a sleep, and a call
\* that has returned fetches and sleeps no more.
C2_SuccessReturnsOnThatPoll ==
    [][ /\ ( /\ GotStatus
             /\ status'.isSucceeded = "true"
             /\ OverallProgressOf(status') = MaxProgressOf(status') )
           => ( /\ wpc' = "done"
                /\ outcome' = "return"
                /\ retval' = status'
                /\ sleeps' = sleeps
                /\ fetches' = fetches + 1 )
        /\ (wpc = "done" /\ outcome = "return")
           => (fetches' = fetches /\ sleeps' = sleeps /\ retval' = retval)
      ]_vars

\* witness of C2: a status at exactly the maximum is returned by the second poll
C2_Witness ==
    /\ wpc = "done"
    /\ outcome = "return"
    /\ fetches = 2
    /\ sleeps = 1
    /\ retval = status
    /\ retval.isSucceeded = "true"
    /\ OverallProgressOf(retval) = MaxProgressOf(retval)

\* C3: a fetched status with isSucceeded false and overallProgress at or above
\* maxOverallProgress makes the poll raise the task-failed Exception, whose
\* message contains the status text of that response, and ends the polling.
C3_FailureRaisesWithStatusText ==
    [][ ( /\ GotStatus
          /\ status'.isSucceeded = "false"
          /\ OverallProgressOf(status') >= MaxProgressOf(status') )
        => ( /\ wpc' = "done"
             /\ outcome' = "Exception"
             /\ Len(errmsg') = 3
             /\ errmsg'[2] = " task failed: "
             /\ \/ status'.statusText = ""
                \/ errmsg'[3] = status'.statusText
             /\ retval' = NoStatus
             /\ sleeps' = sleeps )
      ]_vars

\* witness of C3: a failed task with a status text, progress above the maximum
C3_Witness ==
    /\ wpc = "done"
    /\ outcome = "Exception"
    /\ lastFetch = "status"
    /\ status.isSucceeded = "false"
    /\ status.statusText # ""
    /\ errmsg[3] = status.statusText
    /\ OverallProgressOf(status) > MaxProgressOf(status)

\* C4: a 404 from the status fetch raises the task-not-found Exception at
\* once: no sleep, no return, no timeout, and the call is over.
C4_NotFoundFailsImmediately ==
    [][ (wpc = "fetch" /\ lastFetch' = "HTTP404")
        => ( /\ wpc' = "done"
             /\ outcome' = "Exception"
             /\ errmsg' = TaskNotFoundMessage
             /\ retval' = NoStatus
             /\ sleeps' = sleeps
             /\ fetches' = fetches + 1 )
      ]_vars

\* witness of C4: the 404 arrives on a later poll of a task that was pending
C4_Witness ==
    /\ wpc = "done"
    /\ lastFetch = "HTTP404"
    /\ outcome = "Exception"
    /\ errmsg = TaskNotFoundMessage
    /\ fetches = 2
    /\ sleeps = 1

\* C5: a fetched status ends the polling if and only if isSucceeded is not
\* null and overallProgress >= maxOverallProgress; any other status, also one
\* with isSucceeded true or false below the maximum, leads to the sleep with
\* nothing returned and nothing raised.
C5_TerminalIffNonNullAndAtMax ==
    [][ GotStatus
        => /\ (wpc' = "done")
              <=> ( /\ status'.isSucceeded # "null"
                    /\ OverallProgressOf(status') >= MaxProgressOf(status') )
           /\ (wpc' # "done") => (wpc' = "sleep" /\ outcome' = "none" /\ retval' = NoStatus)
           /\ (wpc' = "done") => outcome' \in {"return", "Exception"}
      ]_vars

\* witness of C5: a status with isSucceeded true below the maximum is slept on
C5_Witness ==
    /\ wpc = "sleep"
    /\ outcome = "none"
    /\ status.isSucceeded \in {"true", "false"}
    /\ OverallProgressOf(status) < MaxProgressOf(status)

----------------------------------------------------------------------------
(* Properties of cleanup_old_backups (checked under SpecCleanup)           *)

\* list_backups returned the listing (the only ClientError that leaves the
\* cleanup is the one of the listing)
Listed == cpc # "idle" /\ cresult # "ClientError"

ListingSize == Len(bucket)

NumToDelete == ListingSize - retention_count

AttemptedKeys == {attempted[i].key : i \in 1..Len(attempted)}

SucceededDeletes == {i \in 1..Len(attempted) : attempted[i].result = "ok"}

\* at least n other entries of the listing are at least as recent as entry k
AtLeastAsRecent(k) ==
    {j \in 1..ListingSize : j # k /\ bucket[j].last_modified >= bucket[k].last_modified}

\* no attempted delete is of an entry among the retention_count most recent:
\* each has retention_count others at least as recent, and no entry left
\* alone by a complete run is older than an attempted one
NoneOfMostRecentAttempted ==
    /\ \A k \in AttemptedKeys : Cardinality(AtLeastAsRecent(k)) >= retention_count
    /\ Len(attempted) = NumToDelete
       => \A k \in AttemptedKeys : \A j \in (1..ListingSize) \ AttemptedKeys :
             bucket[j].last_modified >= bucket[k].last_modified

----------------------------------------------------------------------------
(* Properties of the workflow drivers (SpecPublish, SpecIngest)            *)

\* the compiled publication a call belongs to
CompiledPub(c) ==
    LET p == CHOOSE p \in 1..Len(projects) : projects[p].project_id = c.project
        q == CHOOSE q \in 1..Len(projects[p].publications) :
                 projects[p].publications[q].publication_id = c.pub
    IN  projects[p].publications[q]

\* the calls made by the action loop (not by the reconciliation pass)
ActionCalls == SelectSeq(pubCalls, LAMBDA c : c.action > 0)

\* the call ended the action loop of its publication with an exception
CallRaised(c) ==
    \/ c.result \in {"raise", "Exception", "TimeoutError", "HTTPError", "ConnectionError"}
       /\ ~(c.op = "wait_for_processing" /\ c.result = "TimeoutError")
    \/ c.op = "export_publication_pdf" /\ c.result = "nokey"

\* the number of actions of the publication of pubCalls that the loop is past
ActionsPassed ==
    LET c == ActionCalls[1]
    IN  IF /\ ppc = "process"
           /\ projects[proj_i].project_id = c.project
           /\ projects[proj_i].publications[pub_i].publication_id = c.pub
           /\ act_i > 1
        THEN act_i - 1
        ELSE Len(CompiledPub(c).actions)

\* the calls are those of one publication, in the order of its action list
InDeclaredOrder ==
    \A i, j \in 1..Len(ActionCalls) :
        i < j => /\ ActionCalls[i].action <= ActionCalls[j].action
                 /\ ActionCalls[i].project = ActionCalls[j].project
                 /\ ActionCalls[i].pub = ActionCalls[j].pub

\* as long as no call raised, every action of one of the types that the loop
\* is past has made a call
AllRun(types) ==
    (ActionCalls # <<>> /\ \A i \in 1..Len(ActionCalls) : ~CallRaised(ActionCalls[i]))
    => \A k \in 1..ActionsPassed :
          CompiledPub(ActionCalls[1]).actions[k].type \in types
          => \E i \in 1..Len(ActionCalls) : ActionCalls[i].action = k

\* C8 as stated: in the reconciliation pass a create_publication that
\* returned a task key is followed, before the next publication is looked at,
\* by the wait_for_task that polls the creation task.
C8_CreateThenWait ==
    \A i \in 1..Len(pubCalls) :
        (pubCalls[i].op = "create_publication" /\ pubCalls[i].result = "key")
        => /\ i < Len(pubCalls)
           /\ pubCalls[i + 1].op = "wait_for_task"
           /\ pubCalls[i + 1].pub = pubCalls[i].pub

\* C9: the calls run_publications makes for a compiled publication are those
\* of its publish and export_pdf actions only, in the order of its action
\* list; as long as none raises, each of these actions is run; nothing is
\* downloaded and nothing is uploaded.
C9_PublishRunsPublishAndExportOnly ==
    /\ \A i \in 1..Len(ActionCalls) :
          LET c == ActionCalls[i]
              t == CompiledPub(c).actions[c.action].type
          IN  /\ t \in {"publish", "export_pdf"}
              /\ c.op \in {"update_publication", "export_publication_pdf", "wait_for_task"}
              /\ c.op = "update_publication" => t = "publish"
              /\ c.op = "export_publication_pdf" => t = "export_pdf"
    /\ InDeclaredOrder
    /\ AllRun({"publish", "export_pdf"})
    /\ files = {}
    /\ last_export_path = <<>>

\* witness of C9: a publication with the four actions was published and then
\* exported, both waits returned, and the workflow is past its download and
\* upload actions
C9_Witness ==
    /\ ppc = "done"
    /\ Len(pubCalls) = 4
    /\ pubCalls[1].op = "update_publication"
    /\ pubCalls[2].op = "wait_for_task" /\ pubCalls[2].result = "return"
    /\ pubCalls[3].op = "export_publication_pdf" /\ pubCalls[3].action = 2
    /\ pubCalls[4].op = "wait_for_task" /\ pubCalls[4].result = "return"
    /\ Len(CompiledPub(pubCalls[1]).actions) = 4

\* C10: the calls run_tribble_upload makes for a compiled publication are
\* those of its download_pdf and upload_tribble actions only, in the order of
\* its action list, an upload only after the download of the publication
\* returned; as long as none raises each of these actions is run, so that a
\* publication compiled from {title, export: true} gets exactly the download
\* and then the upload; nothing is published and nothing is exported.
C10_IngestRunsDownloadAndUploadOnly ==
    /\ \A i \in 1..Len(ActionCalls) :
          LET c == ActionCalls[i]
              t == CompiledPub(c).actions[c.action].type
          IN  /\ t \in {"download_pdf", "upload_tribble"}
              /\ c.op \in {"download_pdf", "upload_pdf", "wait_for_processing"}
              /\ c.op = "download_pdf" => t = "download_pdf"
              /\ c.op \in {"upload_pdf", "wait_for_processing"} => t = "upload_tribble"
              /\ c.op = "upload_pdf"
                 => \E j \in 1..(i - 1) :
                       ActionCalls[j].op = "download_pdf" /\ ActionCalls[j].result = "ok"
    /\ InDeclaredOrder
    /\ AllRun({"download_pdf", "upload_tribble"})
    /\ ( /\ ActionCalls # <<>>
         /\ \A i \in 1..Len(ActionCalls) : ~CallRaised(ActionCalls[i])
         /\ ActionsPassed = 3
         /\ CompiledPub(ActionCalls[1]).actions = BuildActions([title |-> Chars_Guide, export |-> TRUE]) )
       => /\ SelectSeq(ActionCalls, LAMBDA c : c.op # "wait_for_processing")
               = <<Call("download_pdf", ActionCalls[1].project, ActionCalls[1].pub, 2, "ok"),
                   Call("upload_pdf", ActionCalls[1].project, ActionCalls[1].pub, 3,
                        ActionCalls[2].result)>>
          /\ Len(ActionCalls) <= 3

\* witness of C10: the publication guide: {title: "Guide", export: true} was
\* downloaded to Guide.pdf and uploaded, and the processing was waited for
C10_Witness ==
    /\ ppc = "done"
    /\ Len(pubCalls) = 3
    /\ CompiledPub(pubCalls[1]).actions = BuildActions([title |-> Chars_Guide, export |-> TRUE])
    /\ pubCalls[1].op = "download_pdf" /\ pubCalls[1].result = "ok"
    /\ pubCalls[2].op = "upload_pdf" /\ pubCalls[2].result = "key"
    /\ pubCalls[3].op = "wait_for_processing" /\ pubCalls[3].result = "return"
    /\ last_export_path = Chars_Guide \o Pdf

----------------------------------------------------------------------------
(* Properties of run_backup (checked under SpecBackup)                     *)

\* the steps of the backup of one project, in the order of the claim
BackupStepOrder ==
    <<"backup_project", "wait_for_task", "download_backup", "delete_storage_file",
      "upload_backup", "cleanup_old_backups", "os.remove">>

\* the loop has left the project whose calls bkCalls holds
ProjectLeft == bkCalls # <<>> /\ bstep = "backup_project"

\* none of the logged calls failed, and the start of the backup returned a
\* task key
NothingFailed ==
    \A i \in 1..Len(bkCalls) : bkCalls[i].result \notin FailureResults \cup {"nokey"}

\* C11: the calls made for one project are, in this order, the start of the
\* remote backup, the wait for its task, the download, the deletion of the
\* remote copy, the upload to object storage, the retention cleanup and the
\* removal of the local copy; each is made once, for the same project; the
\* step that comes next is the one after the last call that has finished;
\* when nothing fails (and the portal names the backup task), all seven are
\* made.
C11_BackupStepsInOrder ==
    /\ Len(bkCalls) <= Len(BackupStepOrder)
    /\ \A i \in 1..Len(bkCalls) :
          /\ bkCalls[i].op = BackupStepOrder[i]
          /\ bkCalls[i].project = bkCalls[1].project
    /\ (bpc = "project" /\ bstep # "backup_project")
          => bstep = BackupStepOrder[Len(bkCalls) + 1]
    /\ (ProjectLeft /\ NothingFailed) => Len(bkCalls) = Len(BackupStepOrder)

C11_Witness ==
    /\ bpc = "done"
    /\ Len(bkCalls) = 7
    /\ NothingFailed
    /\ bkCalls[1].project = "release-notes"
    /\ backup_files = {}

\* the configuration switches backup on: s3_backup.enabled is true
EnabledFlagOn ==
    \E i \in 1..Len(config) :
        /\ config[i].key = "s3_backup"
        /\ \E j \in 1..Len(config[i].items) :
              config[i].items[j].key = "enabled" /\ config[i].items[j].value = TRUE

\* C12: when s3_backup.enabled is false or absent, run_backup issues no
\* request to the portal or to the object store, makes no call for any
\* project and creates or removes no local backup file.
C12_DisabledBackupDoesNothing ==
    ~EnabledFlagOn =>
        /\ requests = {}
        /\ bkCalls = <<>>
        /\ backup_files = {}
        /\ bpc \in {"start", "disabled", "raised"}

C12_Witness ==
    /\ bpc = "disabled"
    /\ ~SectionHas(config, "s3_backup", "enabled")
    /\ SectionHas(config, "s3_backup", "region")
    /\ Len(BuildProjects(config)) = 2

\* C20: after delete_storage_file has raised, the backup of the project goes
\* on as after a successful deletion: the local file is there, the upload to
\* object storage is the next call, and as long as the upload and the cleanup
\* succeed the cleanup and the removal of the local file follow.
C20_RemoteDeleteFailureSwallowed ==
    (Len(bkCalls) >= 4 /\ bkCalls[4].result = "raise") =>
        \A i \in 4..6 :
            (/\ Len(bkCalls) >= i
             /\ \A k \in 5..i : bkCalls[k].result \notin FailureResults)
            => IF Len(bkCalls) = i
               THEN /\ bpc = "project"
                    /\ bstep = BackupStepOrder[i + 1]
                    /\ bkCalls[1].project \in backup_files
               ELSE bkCalls[i + 1].op = BackupStepOrder[i + 1]

C20_Witness ==
    /\ ProjectLeft
    /\ Len(bkCalls) = 7
    /\ bkCalls[4].op = "delete_storage_file"
    /\ bkCalls[4].result = "raise"
    /\ bkCalls[7].op = "os.remove"
    /\ bkCalls[1].project \notin backup_files

----------------------------------------------------------------------------
(* Properties of _build_actions_from_publication (checked under            *)
(* SpecActions)                                                            *)

\* the configuration has one of the keys update, visibility, output_tags
HasPublishKey == {"update", "visibility", "output_tags"} \cap DOMAIN pub_config # {}

\* the value configured for key k, or dflt without the key
Configured(k, dflt) == IF k \in DOMAIN pub_config THEN pub_config[k] ELSE dflt

\* the positions of the actions of the types ts in the returned list
PositionsOf(ts) == {i \in 1..Len(actions) : actions[i].type \in ts}

\* C16: the returned list has a publish action exactly when update,
\* visibility or output_tags is a key of the configuration, and then it is
\* the first action, the only publish action, and carries the configured
\* values, with update_mode "Partial", visibility "Private" and output_tags
\* [] for the keys that are absent.
C16_PublishActionAtHead ==
    kpc = "compiled" =>
        /\ PositionsOf({"publish"}) = IF HasPublishKey THEN {1} ELSE {}
        /\ HasPublishKey =>
              actions[1] = [type |-> "publish",
                            update_mode |-> Configured("update", "Partial"),
                            visibility |-> Configured("visibility", "Private"),
                            output_tags |-> Configured("output_tags", <<>>)]

C16_Witness ==
    /\ kpc = "compiled"
    /\ DOMAIN pub_config = {"title", "visibility", "export"}
    /\ actions[1].type = "publish"
    /\ actions[1].update_mode = "Partial"
    /\ actions[1].visibility = "Public"
    /\ actions[1].output_tags = <<>>
    /\ Len(actions) = 4

\* the export flag of the configuration is set
ExportOn == Configured("export", FALSE)

AllowedInFilename(c) == c \in Letters \cup Digits \cup {" ", "_", "-", "."}

\* s without its leading and trailing spaces
Trimmed(s) ==
    LET idx == {i \in 1..Len(s) : s[i] # " "}
    IN  IF idx = {} THEN <<>>
        ELSE SubSeq(s, CHOOSE i \in idx : \A j \in idx : i <= j,
                       CHOOSE i \in idx : \A j \in idx : i >= j)

\* s with ".pdf" appended unless it ends in ".pdf"
WithPdfSuffix(s) ==
    IF Len(s) >= 4 /\ SubSeq(s, Len(s) - 3, Len(s)) = <<".", "p", "d", "f">>
    THEN s
    ELSE s \o <<".", "p", "d", "f">>

\* the output_filename of the download_pdf action (<<>>: None)
DownloadFilename ==
    actions[CHOOSE i \in 1..Len(actions) : actions[i].type = "download_pdf"].output_filename

Chars_ReleaseFile ==
    <<"R", "e", "l", "e", "a", "s", "e", " ", "N", "o", "t", "e", "s", " ",
      "v", "2", ".", "0", ".", "p", "d", "f">>

\* C19 as stated: the file name is the title without the characters outside
\* the allowed set, trimmed, with ".pdf" appended unless it ends in ".pdf".
C19_Original ==
    (kpc = "compiled" /\ ExportOn /\ "title" \in DOMAIN pub_config) =>
        DownloadFilename = WithPdfSuffix(Trimmed(SelectSeq(pub_config["title"], AllowedInFilename)))

\* C19: when at least one character of the title is left after the removal
\* of the characters outside the allowed set and the trimming, the file name
\* is what is left, in the order of the title, with ".pdf" appended unless it
\* ends in ".pdf"; when nothing is left (or there is no title) the action has
\* no file name; "Release Notes: v2.0!" gives "Release Notes v2.0.pdf".
C19_FilenameFromTitle ==
    (kpc = "compiled" /\ ExportOn) =>
        LET left == Trimmed(SelectSeq(Configured("title", <<>>), AllowedInFilename))
        IN  /\ DownloadFilename = IF left = <<>> THEN <<>> ELSE WithPdfSuffix(left)
            /\ Configured("title", <<>>) = Chars_Release => DownloadFilename = Chars_ReleaseFile

C19_Witness ==
    /\ kpc = "compiled"
    /\ ExportOn
    /\ Configured("title", <<>>) = Chars_Release
    /\ DownloadFilename = Chars_ReleaseFile

----------------------------------------------------------------------------
(* Properties of build_projects_from_config (checked under SpecPublish)    *)

\* the keys from which _build_actions_from_publication derives actions
ActionKeys == {"update", "visibility", "output_tags", "export"}

\* the returned list has the publication pub of the project proj
InGraph(proj, pub) ==
    \E p \in 1..Len(projects) :
        /\ projects[p].project_id = proj
        /\ \E q \in 1..Len(projects[p].publications) :
              projects[p].publications[q].publication_id = pub

\* C18: in the list build_projects_from_config returned every project has a
\* publication and every publication has an action; an entry of a project
\* section with none of update, visibility, output_tags, export is not a
\* publication of its project, and a project section without any entry that
\* became a publication is not in the list.
C18_NoEmptyPublicationOrProject ==
    /\ \A p \in 1..Len(projects) :
          /\ projects[p].publications # <<>>
          /\ \A q \in 1..Len(projects[p].publications) :
                projects[p].publications[q].actions # <<>>
    /\ ppc \in {"process", "done"} =>
          \A i \in 1..Len(config) :
              config[i].key \notin ConfigSections =>
                  /\ \A j \in 1..Len(config[i].items) :
                        LET it == config[i].items[j] IN
                        (it.isDict /\ DOMAIN it.value \cap ActionKeys = {})
                            => ~InGraph(config[i].key, it.key)
                  /\ (\A j \in 1..Len(config[i].items) :
                         ~InGraph(config[i].key, config[i].items[j].key))
                        => \A p \in 1..Len(projects) : projects[p].project_id # config[i].key

C18_Witness ==
    /\ ppc = "process"
    /\ Len(config) = 3
    /\ config[2].key = "docs"
    /\ Len(config[2].items) = 1
    /\ config[2].items[1].value = [title |-> Chars_Notes]
    /\ Len(projects) = 1
    /\ projects[1].project_id = "release-notes"
    /\ Len(projects[1].publications) = 1

----------------------------------------------------------------------------
(* Properties of the process (checked under SpecMain and SpecOps)          *)

\* the step handles an item of a loop: an entry of the reconciliation pass,
\* an action of a publication, or a call for a project
ItemStep ==
    \/ mpc \in {"publish", "tribble-upload"} /\ ppc \in {"reconcile", "process"}
    \/ mpc = "backup" /\ bpc = "project"

\* the step adds a failed call to the log of the item at hand
CallFailsInStep ==
    \/ /\ mpc \in {"publish", "tribble-upload"}
       /\ ppc = "process"
       /\ \E c \in Range(NewPubCalls) : c.result \in FailureResults
    \/ /\ mpc = "publish"
       /\ ppc = "reconcile"
       /\ \E c \in Range(pubCalls') : c.result \in FailureResults
    \/ /\ mpc = "backup"
       /\ bpc = "project"
       /\ \E c \in Range(NewBackupCalls) : c.result \in FailureResults

\* C13: a step that handles a publication or a project never ends the
\* process, whatever its calls did: the workflow stays in its loops or
\* reaches its end, at the next item when the failure was raised (a wait for
\* the processing of an ingested document that times out is swallowed by the
\* uploader, and the next action follows); the process is ended by an exception only at the start of a workflow, before
\* its loops; and a workflow that has returned is followed by the next one of
\* the combined workflow.
C13_ItemFailureIsolated ==
    [][ /\ ItemStep =>
             /\ mpc' = mpc
             /\ error' = "none"
             /\ mpc = "backup" \/ ppc' \in {"reconcile", "process", "done"}
             /\ mpc # "backup" \/ bpc' \in {"project", "done"}
        /\ (CallFailsInStep /\ ppc = "process" /\ ppc' = "process") =>
             \/ <<proj_i', pub_i'>> # <<proj_i, pub_i>> /\ act_i' = 1
             \/ act_i' = act_i + 1 /\ pubCalls'[Len(pubCalls')].result = "TimeoutError"
        /\ (CallFailsInStep /\ bpc = "project" /\ bpc' = "project") =>
             \/ bk_i' = bk_i + 1 /\ bstep' = "backup_project"
             \/ bstep = "delete_storage_file" /\ bstep' = "upload_backup"
        /\ (mpc' = "raised" /\ mpc # "raised") =>
             \/ mpc \in {"publish", "tribble-upload"} /\ ppc = "start"
             \/ mpc = "backup" /\ bpc = "start"
        /\ (command = "all" /\ WorkflowReturned /\ mpc = "publish") => mpc' = "tribble-upload"
        /\ (command = "all" /\ WorkflowReturned /\ mpc = "tribble-upload") => mpc' = "backup"
      ]_vars

C13_Witness ==
    /\ command = "all"
    /\ mpc = "exit"
    /\ error = "none"
    /\ failures = {"publish", "tribble-upload", "backup"}
    /\ Len(projects) = 2
    /\ bpc = "done"

\* C14: when the process ends with the ValueError of a missing required
\* environment variable, no request has been issued to any service.
C14_MissingCredentialBeforeAnyRequest ==
    (mpc = "raised" /\ error = "ValueError") => requests = {}

\* the indexes of the logged calls of the publication at hand that have the
\* operation and the action of call number i
SameOpAndAction(i) ==
    {j \in 1..Len(pubCalls) :
        pubCalls[j].op = pubCalls[i].op /\ pubCalls[j].action = pubCalls[i].action}

\* the position of the step that comes next in the backup of a project
StepIndex(s) == CHOOSE i \in 1..Len(BackupStepOrder) : BackupStepOrder[i] = s

Before(a, b) ==
    \/ a[1] < b[1]
    \/ a[1] = b[1] /\ a[2] < b[2]
    \/ a[1] = b[1] /\ a[2] = b[2] /\ a[3] < b[3]

\* C15: no operation is issued twice for the same step: the calls logged for
\* a publication hold each operation once per action (create_publication
\* once per entry of the reconciliation pass) and none for an action after a
\* call of that action failed; the calls logged for a project hold each
\* operation once, and after a failed call no further call but the upload
\* path that follows a failed deletion of the remote copy; a cleanup issues
\* delete_object once per key; and the loops only move forward, so that no
\* item is handled twice in a run.
C15_NoOperationRetried ==
    /\ [](/\ \A i \in 1..Len(pubCalls) :
               /\ SameOpAndAction(i) = {i}
               /\ pubCalls[i].result \in FailureResults =>
                     \A j \in (i + 1)..Len(pubCalls) : pubCalls[j].action # pubCalls[i].action
          /\ \A i \in 1..Len(bkCalls) :
               /\ \A j \in 1..Len(bkCalls) : bkCalls[j].op = bkCalls[i].op => j = i
               /\ (bkCalls[i].result \in FailureResults /\ bkCalls[i].op # "delete_storage_file")
                     => i = Len(bkCalls)
          /\ \A i \in 1..Len(attempted) :
               \A j \in 1..Len(attempted) : attempted[j].key = attempted[i].key => j = i)
    /\ [][ /\ (ppc = "reconcile" /\ ppc' = "reconcile") => Before(<<ri, rj, 0>>, <<ri', rj', 0>>)
           /\ (ppc = "process" /\ ppc' = "process") =>
                 Before(<<proj_i, pub_i, act_i>>, <<proj_i', pub_i', act_i'>>)
           /\ (bpc = "project" /\ bpc' = "project") =>
                 Before(<<bk_i, StepIndex(bstep), 0>>, <<bk_i', StepIndex(bstep'), 0>>)
           /\ (cpc = "deleting" /\ cpc' = "deleting") => di' = di + 1
         ]_vars

C15_Witness ==
    /\ command = "all"
    /\ mpc = "exit"
    /\ Len(bkCalls) = 1
    /\ bkCalls[1].result = "raise"
    /\ "tribble-upload" \in failures
    /\ "publish" \in failures

----------------------------------------------------------------------------
(* Properties of wait_for_processing (checked under SpecProcessing)        *)

\* the step is a check_status call that returned a response
CheckReturned == jpc = "check" /\ job_outcome' \notin CheckErrors

\* C21: wait_for_processing returns only on a poll whose status is
\* "processed"; a poll with any other status (processing, a failure status,
\* an unknown or a missing one) leaves the wait pending, is followed by a
\* sleep of at least poll_interval and by the loop test, which polls again
\* while the time waited is below max_wait and raises TimeoutError once it
\* is not; TimeoutError is raised nowhere else.
C21_ReturnsOnlyOnProcessed ==
    /\ [](job_outcome = "return" => job_status = "processed")
    /\ [][ /\ CheckReturned =>
                IF job_status' = "processed"
                THEN jpc' = "done" /\ job_outcome' = "return"
                ELSE jpc' = "sleep" /\ job_outcome' = "none"
           /\ jpc = "sleep" =>
                /\ jpc' = "test"
                /\ job_elapsed' >= job_elapsed + job_poll_interval
                /\ job_outcome' = "none"
           /\ jpc = "test" =>
                IF job_elapsed < job_max_wait
                THEN jpc' = "check" /\ job_outcome' = "none"
                ELSE jpc' = "done" /\ job_outcome' = "TimeoutError"
           /\ job_outcome' = "TimeoutError" => job_elapsed >= job_max_wait
         ]_vars

C21_Witness ==
    /\ job_outcome = "TimeoutError"
    /\ job_status = "failed"
    /\ checks >= 2

----------------------------------------------------------------------------
(* The states and the termination of wait_for_task (checked under          *)
(* SpecPoll and SpecPollFair)                                              *)

\* the state the poller derives from a fetched status
DerivedState(s) ==
    IF s.isSucceeded = "null" \/ OverallProgressOf(s) < MaxProgressOf(s) THEN "Pending"
    ELSE IF s.isSucceeded = "true" THEN "Succeeded"
    ELSE "Failed"

\* C22: within a call the state derived from the fetched statuses only goes
\* from Pending to Succeeded or Failed: a status is fetched only while every
\* status fetched before was Pending, and once a fetched status is Succeeded
\* or Failed the call has ended, fetches no more and keeps that status.
C22_DerivedStateMonotonic ==
    /\ []((status # NoStatus /\ DerivedState(status) # "Pending") =>
             /\ wpc = "done"
             /\ lastFetch = "status"
             /\ outcome = (IF DerivedState(status) = "Succeeded" THEN "return" ELSE "Exception"))
    /\ [][ /\ (status # NoStatus /\ DerivedState(status) # "Pending") =>
                (fetches' = fetches /\ status' = status)
           /\ fetches' # fetches =>
                (status = NoStatus \/ DerivedState(status) = "Pending")
         ]_vars

C22_Witness ==
    /\ wpc = "done"
    /\ fetches >= 2
    /\ lastFetch = "status"
    /\ DerivedState(status) = "Failed"

\* the least integer that is not below a / b
CeilDiv(a, b) == (a + b - 1) \div b

\* C26: a call of wait_for_task with poll_interval > 0 ends, by a return or
\* by an exception, whatever the status responses are; it fetches the status
\* at most ceil(max_wait / poll_interval) times, and not at all with
\* max_wait <= 0, where it raises TimeoutError.
C26_WaitTerminates ==
    /\ (wpc = "test") ~> (wpc = "done" /\ outcome # "none")
    /\ [](wpc # "idle" =>
            /\ poll_interval > 0
            /\ fetches <= (IF max_wait <= 0 THEN 0 ELSE CeilDiv(max_wait, poll_interval))
            /\ (wpc = "done" /\ max_wait <= 0) => (outcome = "TimeoutError" /\ fetches = 0))

C26_Witness ==
    /\ wpc = "done"
    /\ outcome = "TimeoutError"
    /\ max_wait > poll_interval
    /\ fetches = CeilDiv(max_wait, poll_interval)

\* with max_wait below zero
C26_WitnessNegative ==
    /\ wpc = "done"
    /\ max_wait < 0
    /\ outcome = "TimeoutError"

----------------------------------------------------------------------------
(* Properties of delete_storage_file (checked under SpecStorage)           *)

\* C23: the path that reaches the delete endpoint is the storage path
\* without a leading "Storage/" (and without slashes at its ends); a path
\* that does not start with "Storage/" reaches the endpoint whole, even if
\* "Storage/" occurs later in it.
C23_OnlyLeadingStorageRemoved ==
    dpc = "called" =>
        relative_path =
            StripSlashes(IF StartsWith(file_path, Chars_StorageSlash)
                         THEN SubSeq(file_path, Len(Chars_StorageSlash) + 1, Len(file_path))
                         ELSE file_path)

----------------------------------------------------------------------------
(* The storage file of a project's backup (checked under SpecBackup)       *)

\* C24: the storage path that backup_project generates with the time of its
\* call is the path of the later download and of the later remote delete:
\* the requests made for a project name one file, "Storage/" put before the
\* path of the download and of the delete gives the generated path, and the
\* time in it is the time of the start of the backup, whatever the time of
\* the later requests is.
C24_BackupPathPreserved ==
    storage_calls # <<>> =>
        /\ storage_calls[1].op = "backup_project"
        /\ \E id \in {"docs", "release-notes"} :
              storage_calls[1].path = OutputFileName(id, storage_calls[1].at)
        /\ \A i \in 2..Len(storage_calls) :
              /\ storage_calls[i].op \in {"download_backup", "delete_storage_file"}
              /\ Chars_StorageSlash \o storage_calls[i].path = storage_calls[1].path

C24_Witness ==
    /\ Len(storage_calls) = 3
    /\ storage_calls[3].op = "delete_storage_file"
    /\ storage_calls[3].at > storage_calls[1].at
    /\ storage_calls[1].at > 0

\* C28: retention cleanup and the removal of the local backup file come only
\* after an upload of that project's backup that reported success: a project
\* whose upload failed has no call after the upload, and its local file is
\* still there when the loop has left it.
C28_CleanupOnlyAfterUploadSuccess ==
    /\ \A i \in 1..Len(bkCalls) :
          bkCalls[i].op \in {"cleanup_old_backups", "os.remove"} =>
              \E j \in 1..(i - 1) : bkCalls[j].op = "upload_backup" /\ bkCalls[j].result = "ok"
    /\ \A i \in 1..Len(bkCalls) :
          (bkCalls[i].op = "upload_backup" /\ bkCalls[i].result # "ok") =>
              /\ i = Len(bkCalls)
              /\ bstep = "backup_project"
              /\ bkCalls[i].project \in backup_files

C28_Witness ==
    /\ Len(bkCalls) = 5
    /\ bkCalls[5].op = "upload_backup"
    /\ bkCalls[5].result = "ClientError"
    /\ bk_i = 2
    /\ bpc = "done"

----------------------------------------------------------------------------
(* Properties of the ingestion upload (checked under SpecUpload)           *)

\* C25: an upload whose local file does not exist fails fast: when
\* upload_to_tribble or upload_pdf finds the file missing, the action ends
\* with FileNotFoundError, and an action that ended with FileNotFoundError
\* has sent no request to the ingestion service and has opened no file.
C25_MissingFileFailsFast ==
    /\ [](up_outcome = "FileNotFoundError" => (posted = 0 /\ opened = 0))
    /\ [][ (upc \in {"upload_to_tribble", "upload_pdf"}
                /\ pdf_path # <<>> /\ pdf_path \notin local_files)
             => (up_outcome' = "FileNotFoundError" /\ upc' = "report"
                    /\ posted' = 0 /\ opened' = 0)
         ]_vars

C25_Witness ==
    /\ upc = "done"
    /\ up_outcome = "FileNotFoundError"
    /\ pdf_path # <<>>
    /\ local_files # {}

\* C29: a timeout of the wait for the processing does not fail the upload
\* step: after a wait that ended with TimeoutError, upload_to_tribble
\* returns the result of the upload, which is a success, and the workflow
\* reports the upload of the publication as a success.
C29_ProcessingTimeoutSwallowed ==
    [][ /\ (upc = "wait" /\ job_outcome' = "TimeoutError") =>
              /\ up_outcome' = "return"
              /\ upc' = "report"
              /\ upload_result' = upload_result
              /\ upload_result.success
        /\ (upc = "report" /\ up_outcome = "return") => report' = "SUCCESS"
      ]_vars

C29_Witness ==
    /\ upc = "done"
    /\ wait_flag
    /\ posted = 1
    /\ upload_result # NoResult
    /\ upload_result.job_id = "job-1"
    /\ job_outcome = "TimeoutError"
    /\ report = "SUCCESS"

----------------------------------------------------------------------------
(* The reconciliation pass of run_publications (checked under SpecPublish) *)

\* the remote listing has id as a project, as a publication of some project
ListedAsProject(id) == \E x \in remote : x.id = id /\ x.parentId = "null"
ListedAsPublication(id) == \E x \in remote : x.id = id /\ x.parentId # "null"

\* the create_publication calls among the calls cs
Creations(cs) == {c \in Range(cs) : c.op = "create_publication"}

----------------------------------------------------------------------------
(* A failed download in run_tribble_upload (checked under SpecIngest)      *)

\* the last of the calls cs is a download that failed
EndsWithFailedDownload(cs) ==
    cs # <<>> /\ cs[Len(cs)].op = "download_pdf" /\ cs[Len(cs)].result = "raise"

\* C27: in the ingestion workflow a download that fails ends the actions of
\* its publication: among the calls made for a publication none follows a
\* failed download, so that no upload is made for it, and the loop goes on
\* with the first action of the next publication, or ends after the last
\* publication.
C27_FailedDownloadSkipsUpload ==
    /\ [](\A i \in 1..Len(pubCalls) :
            (pubCalls[i].op = "download_pdf" /\ pubCalls[i].result = "raise") =>
                i = Len(pubCalls))
    /\ [][ (ppc = "process" /\ EndsWithFailedDownload(pubCalls')) =>
              /\ act_i' = 1
              /\ <<proj_i', pub_i'>> =
                    (IF pub_i < Len(projects[proj_i].publications)
                     THEN <<proj_i, pub_i + 1>> ELSE <<proj_i + 1, 1>>)
              /\ ppc' = (IF proj_i' > Len(projects) THEN "done" ELSE "process")
              /\ files' = files
         ]_vars

C27_Witness ==
    /\ ppc = "process"
    /\ EndsWithFailedDownload(pubCalls)
    /\ Len(projects[1].publications[1].actions) >= 3
    /\ <<proj_i, pub_i, act_i>> = <<1, 2, 1>>

====
